---- MODULE Spec2Model ----
(***************************************************************************)
(* The decision prioritization proxy of crowdsec-unifi-bouncer's sidecar:  *)
(* the scorer (sidecar/internal/scorer), the LAPI client's decoding        *)
(* (sidecar/internal/lapi) and the HTTP handler with its cache             *)
(* (sidecar/internal/proxy).                                               *)
(*                                                                         *)
(* Time is counted in hours.  Strings the code parses (durations,          *)
(* timestamps, CIDR literals, scenario patterns) are modelled by lookup    *)
(* tables over the finite universe of strings the model uses.              *)
(***************************************************************************)
EXTENDS Integers, Sequences, FiniteSets, TLC

\* ------------------------------------------------------------------------
\* Bounds of the model
\* ------------------------------------------------------------------------
MaxLen == 3          \* longest decision list handed to the scorer harness
MaxN == 3            \* largest max_n tried by the scorer harness
StartTime == 200     \* clock value (hours) at construction
MaxTicks == 1        \* how far the clock may advance
MaxCfgDecisions == 2 \* largest max_decisions tried by the handler
MaxRequests == 2     \* requests served in one behaviour
MaxChecks == 2       \* ticks of the auditor in one behaviour

Min(a, b) == IF a < b THEN a ELSE b

\* int(x) of Go for the rational a/b, b > 0: truncation toward zero.
TruncDiv(a, b) == IF a >= 0 THEN a \div b ELSE -((-a) \div b)

RECURSIVE SumSeq(_)
SumSeq(s) == IF s = <<>> THEN 0 ELSE Head(s) + SumSeq(Tail(s))

\* ------------------------------------------------------------------------
\* lapi.Decision on the wire, and the client's parsing of its strings
\* ------------------------------------------------------------------------

\* time.ParseDuration on the durations the model uses; an error leaves 0.
parseDuration(s) ==
    CASE s = "4h"   -> 4
      [] s = "24h"  -> 24
      [] s = "168h" -> 168
      [] s = "400h" -> 400
      [] OTHER      -> 0       \* "forever": error, zero value kept

\* time.Parse over the layouts of parseCreatedAt, as hours since the model's
\* epoch; an unparseable string gives the zero time, here 0.
parseCreatedAt(s) ==
    CASE s = "2026-01-09T07:30:00Z"          -> 199   \* RFC3339
      [] s = "2026-01-08 08:00:00 +0000 UTC" -> 176   \* fourth layout
      [] s = "2026-01-01 00:00:00"           -> 1     \* fifth layout
      [] OTHER                               -> 0     \* "yesterday": error

\* The zero time.Time.
ZeroTime == 0

\* strings.Contains(value, "/")
HasSlash(value) == value \in {"10.0.0.0/16", "10.9.0.0/24", "10.1.0.0/33"}

\* parsePrefixLen: the ones of net.ParseCIDR's mask, 32 when the value has no
\* "/" or does not parse.
parsePrefixLen(value) ==
    IF HasSlash(value)
    THEN CASE value = "10.0.0.0/16" -> 16
           [] value = "10.9.0.0/24" -> 24
           [] OTHER                 -> 32    \* "10.1.0.0/33": ParseCIDR fails
    ELSE 32

\* The wire form of a decision (the json-tagged fields of lapi.Decision).
Wire(id, origin, type, scope, value, duration, scenario, created) ==
    [ID |-> id, Origin |-> origin, Type |-> type, Scope |-> scope,
     Value |-> value, Duration |-> duration, Scenario |-> scenario,
     CreatedAt |-> created]

\* The decisions the modelled upstream can send.  D1 and D6 share the id 1;
\* 1.2.3.4 and 9.8.7.6 each occur in two decisions.
D1 == Wire(1, "crowdsec", "ban", "Ip", "1.2.3.4", "", "manual",
           "2026-01-08 08:00:00 +0000 UTC")
D2 == Wire(2, "CAPI", "ban", "ip", "1.2.3.4", "24h", "manual", "")
D3 == Wire(3, "lists", "captcha", "range", "10.0.0.0/16", "forever", "http-bf",
           "yesterday")
D4 == Wire(4, "crowdsec", "ban", "", "9.8.7.6", "4h", "manual",
           "2026-01-09T07:30:00Z")
D5 == Wire(5, "cscli", "ban", "range", "9.8.7.6", "168h", "ssh-bf", "")
D6 == Wire(1, "lists", "ban", "Country", "10.1.0.0/33", "400h", "http-probing",
           "2026-01-01 00:00:00")

Pool == {D1, D2, D3, D4, D5, D6}

\* json.Unmarshal into lapi.Decision: the parsed fields and the score are
\* json:"-" and start at their zero values.
Decode(w) ==
    [ID |-> w.ID, Origin |-> w.Origin, Type |-> w.Type, Scope |-> w.Scope,
     Value |-> w.Value, Duration |-> w.Duration, Scenario |-> w.Scenario,
     CreatedAt |-> w.CreatedAt,
     ParsedDuration |-> 0, ParsedCreated |-> ZeroTime, Score |-> 0]

\* The parse loop of GetDecisions / GetDecisionsStream for one decision.
ParseFields(d) ==
    [d EXCEPT
       !.ParsedDuration = IF d.Duration # "" THEN parseDuration(d.Duration) ELSE 0,
       !.ParsedCreated = IF d.CreatedAt # "" THEN parseCreatedAt(d.CreatedAt)
                         ELSE ZeroTime]

\* json.Marshal of one lapi.Decision: the json:"-" fields are not written.
Encode(d) ==
    Wire(d.ID, d.Origin, d.Type, d.Scope, d.Value, d.Duration, d.Scenario,
         d.CreatedAt)

DecodeAll(ws) == [i \in 1..Len(ws) |-> Decode(ws[i])]
ParseAll(ds) == [i \in 1..Len(ds) |-> ParseFields(ds[i])]
EncodeAll(ds) == [i \in 1..Len(ds) |-> Encode(ds[i])]

\* ------------------------------------------------------------------------
\* config.ScoringConfig and its lookup helpers
\* ------------------------------------------------------------------------
VARIABLE now            \* the wall clock, in hours

VARIABLES
    recidivismBonus,    \* ScoringConfig.RecidivismBonus
    compiledScenarios,  \* ScoringConfig.compiledScenarios, in compile order
    maxDecisions,       \* Config.MaxDecisions
    cacheTTL            \* Config.CacheTTL

configVars == <<recidivismBonus, compiledScenarios, maxDecisions, cacheTTL>>

\* scoring.scenarios: every key but "default" is also compiled as ^key$.
ScenarioKeys == {"ssh-bf", "http-.*", ".*-bf", "default"}

Scenarios ==
    [k \in ScenarioKeys |->
        CASE k = "ssh-bf"  -> 50
          [] k = "http-.*" -> 30
          [] k = ".*-bf"   -> 40
          [] k = "default" -> 10]

\* regexp.MatchString of ^raw$ on the scenario names the model uses.
MatchString(raw, scenario) ==
    CASE raw = "ssh-bf"  -> scenario = "ssh-bf"
      [] raw = "http-.*" -> scenario \in {"http-bf", "http-probing"}
      [] raw = ".*-bf"   -> scenario \in {"ssh-bf", "http-bf"}
      [] OTHER           -> FALSE

\* compilePatterns ranges over the Scenarios map, whose iteration order Go
\* leaves unspecified: any order of the keys other than "default".
PatternOrders ==
    LET keys == ScenarioKeys \ {"default"}
        n == Cardinality(keys)
    IN  { s \in [1..n -> keys] : \A i, j \in 1..n : i # j => s[i] # s[j] }

compilePatterns(order) ==
    [i \in 1..Len(order) |-> [raw |-> order[i], score |-> Scenarios[order[i]]]]

RECURSIVE FirstPattern(_, _)
FirstPattern(patterns, scenario) ==
    IF patterns = <<>> THEN <<>>
    ELSE IF MatchString(Head(patterns).raw, scenario) THEN <<Head(patterns)>>
    ELSE FirstPattern(Tail(patterns), scenario)

GetScenarioScore(scenario) ==
    IF scenario \in DOMAIN Scenarios THEN Scenarios[scenario]
    ELSE LET sp == FirstPattern(compiledScenarios, scenario)
         IN  IF sp # <<>> THEN sp[1].score
             ELSE IF "default" \in DOMAIN Scenarios THEN Scenarios["default"]
             ELSE 0

\* scoring.scenario_multiplier as a fraction (2.0).
ScenarioMultiplier == [num |-> 2, den |-> 1]

GetScenarioMultiplier ==
    IF ScenarioMultiplier.num <= 0 THEN [num |-> 2, den |-> 1]
    ELSE ScenarioMultiplier

Origins == [o \in {"CAPI", "cscli", "crowdsec"} |->
              CASE o = "CAPI" -> 10 [] o = "cscli" -> 20 [] o = "crowdsec" -> 25]

GetOriginScore(origin) ==
    IF origin \in DOMAIN Origins THEN Origins[origin] ELSE 0

DecisionTypes == [t \in {"ban", "captcha"} |-> IF t = "ban" THEN 5 ELSE 0]

GetDecisionTypeScore(decisionType) ==
    IF decisionType \in DOMAIN DecisionTypes THEN DecisionTypes[decisionType]
    ELSE 0

TTLScoring == [Enabled |-> TRUE, MaxBonus |-> 10, MaxTTL |-> 168]

\* scoring.freshness_bonuses with MaxAge already through time.ParseDuration
\* (hours); -1 stands for a max_age that does not parse, which is skipped.
FreshnessBonuses ==
    << [MaxAge |-> 1, Bonus |-> 15], [MaxAge |-> -1, Bonus |-> 99],
       [MaxAge |-> 24, Bonus |-> 10], [MaxAge |-> 168, Bonus |-> 5] >>

RECURSIVE FreshnessFrom(_, _)
FreshnessFrom(tiers, age) ==
    IF tiers = <<>> THEN 0
    ELSE IF Head(tiers).MaxAge < 0 THEN FreshnessFrom(Tail(tiers), age)
    ELSE IF age <= Head(tiers).MaxAge THEN Head(tiers).Bonus
    ELSE FreshnessFrom(Tail(tiers), age)

GetFreshnessBonus(age) == FreshnessFrom(FreshnessBonuses, age)

CIDRBonuses ==
    << [MinPrefix |-> 0, MaxPrefix |-> 16, Bonus |-> 20],
       [MinPrefix |-> 17, MaxPrefix |-> 24, Bonus |-> 10],
       [MinPrefix |-> 25, MaxPrefix |-> 32, Bonus |-> 0] >>

RECURSIVE CIDRFrom(_, _)
CIDRFrom(ranges, prefixLen) ==
    IF ranges = <<>> THEN 0
    ELSE IF prefixLen >= Head(ranges).MinPrefix /\ prefixLen <= Head(ranges).MaxPrefix
         THEN Head(ranges).Bonus
    ELSE CIDRFrom(Tail(ranges), prefixLen)

GetCIDRBonus(prefixLen) == CIDRFrom(CIDRBonuses, prefixLen)

\* ------------------------------------------------------------------------
\* scorer.Scorer
\* ------------------------------------------------------------------------

\* calculateTTLBonus; int(ratio * maxBonus) is the floor of the exact
\* quotient for the positive values that reach it.
calculateTTLBonus(duration) ==
    IF duration <= 0 THEN 0
    ELSE IF duration >= TTLScoring.MaxTTL THEN TTLScoring.MaxBonus
    ELSE TruncDiv(duration * TTLScoring.MaxBonus, TTLScoring.MaxTTL)

ScenarioFactor(d) ==
    TruncDiv(GetScenarioScore(d.Scenario) * GetScenarioMultiplier.num,
             GetScenarioMultiplier.den)

TTLFactor(d) ==
    IF TTLScoring.Enabled /\ d.ParsedDuration > 0
    THEN calculateTTLBonus(d.ParsedDuration) ELSE 0

\* time.Since(d.ParsedCreated) is clock - ParsedCreated.
FreshnessFactor(d, clock) ==
    IF d.ParsedCreated # ZeroTime
    THEN GetFreshnessBonus(clock - d.ParsedCreated) ELSE 0

\* A faulty CIDR step: the value alone decides whether a prefix is parsed,
\* and a range whose value has no "/" gets nothing.
CIDRBonusByValueOnly(ranges, d) ==
    IF HasSlash(d.Value)
    THEN CIDRFrom(ranges, parsePrefixLen(d.Value))
    ELSE IF d.Scope = "ip" \/ d.Scope = "Ip" \/ d.Scope = ""
    THEN CIDRFrom(ranges, 32)
    ELSE 0

\* The CIDR step of Scorer.Score under the cidr_bonuses given.
CIDRBonusOf(ranges, d) ==
    IF d.Scope = "range" \/ HasSlash(d.Value)
    THEN CIDRFrom(ranges, parsePrefixLen(d.Value))
    ELSE IF d.Scope = "ip" \/ d.Scope = "Ip" \/ d.Scope = ""
    THEN CIDRFrom(ranges, 32)
    ELSE 0

CIDRFactor(d) == CIDRBonusOf(CIDRBonuses, d)

\* Scorer.Score: the six factors that need only the decision.
Score(d, clock) ==
    ScenarioFactor(d) + GetOriginScore(d.Origin) + TTLFactor(d)
    + GetDecisionTypeScore(d.Type) + FreshnessFactor(d, clock) + CIDRFactor(d)

\* ipCounts[value] of the recidivism pre-pass.
IPCount(decisions, value) ==
    Cardinality({i \in 1..Len(decisions) : decisions[i].Value = value})

\* A faulty recidivism term: the bonus once per decision of the value.
RecidivismPerDecision(bonus, count) ==
    IF bonus > 0 /\ count > 1 THEN bonus * count ELSE 0

\* The recidivism term added in the scoring loop of ScoreAndSort.
RecidivismTerm(bonus, count) ==
    IF bonus > 0 /\ count > 1 THEN bonus * (count - 1) ELSE 0

\* The scoring loop of ScoreAndSort: decisions[i].Score for every i.
ScoreAll(decisions, clock) ==
    [i \in 1..Len(decisions) |->
        [decisions[i] EXCEPT !.Score =
            Score(decisions[i], clock)
            + RecidivismTerm(recidivismBonus,
                             IPCount(decisions, decisions[i].Value))]]

\* A faulty less function: the score alone, without the tie-break on the id.
LessByScore(a, b) == a.Score > b.Score

\* The less function handed to sort.Slice.
Less(a, b) ==
    IF a.Score # b.Score THEN a.Score > b.Score ELSE a.ID < b.ID

\* A faulty sort: the slice is left in the order it came in.
KeepOrder(s) == {s}

\* sort.Slice is not stable: it may return any arrangement of the slice in
\* which no element is Less than one placed before it.
SortSlice(s) ==
    LET n == Len(s)
        arrangements == { [i \in 1..n |-> s[f[i]]] : f \in Permutations(1..n) }
    IN  { p \in arrangements :
            \A i, j \in 1..n : i < j => ~Less(p[j], p[i]) }

\* Scorer.ScoreAndSort: the set of slices it may return.
ScoreAndSort(decisions, clock) == SortSlice(ScoreAll(decisions, clock))

\* A faulty truncation: nothing is cut.
TruncateNothing(sorted, maxN) == sorted

\* A faulty truncation: the cut is one element late.
TruncateOneLate(sorted, maxN) ==
    IF Len(sorted) <= maxN + 1 THEN sorted ELSE SubSeq(sorted, 1, maxN + 1)

\* sorted[:maxDecisions] when len(sorted) > maxDecisions.
Truncate(sorted, maxN) ==
    IF Len(sorted) <= maxN THEN sorted ELSE SubSeq(sorted, 1, maxN)

\* Scorer.ScoreAndTruncate: the set of slices it may return.
ScoreAndTruncate(decisions, maxN, clock) ==
    { Truncate(sorted, maxN) : sorted \in ScoreAndSort(decisions, clock) }

ScoreBucketThresholds == <<25, 50, 75, 100, 150, 200>>

\* A map[string]int built by m[key(d)]++ over a slice.
Tally(ds, key(_)) ==
    [k \in {key(ds[i]) : i \in 1..Len(ds)} |->
        Cardinality({i \in 1..Len(ds) : key(ds[i]) = k})]

OriginOf(d) == d.Origin
ScenarioOf(d) == d.Scenario
ValueOf(d) == d.Value
ScoreOf(d) == d.Score

\* make(map[...]int)
EmptyMap == [k \in {} |-> 0]

\* A faulty tail: the first dropped decision is left out of the tallies.
DroppedTailOneShort(sorted, maxN) ==
    IF Len(sorted) > maxN THEN SubSeq(sorted, maxN + 2, Len(sorted)) ELSE <<>>

\* A faulty tail: a slice of exactly max_decisions loses its last decision to
\* the dropped side.
DroppedTailFromFull(sorted, maxN) ==
    IF Len(sorted) >= maxN /\ maxN > 0
    THEN SubSeq(sorted, Min(maxN + 1, Len(sorted)), Len(sorted)) ELSE <<>>

\* sorted[maxDecisions:] when len(sorted) > maxDecisions: the decisions the
\* truncation drops.
DroppedTail(sorted, maxN) ==
    IF Len(sorted) > maxN THEN SubSeq(sorted, maxN + 1, Len(sorted)) ELSE <<>>

\* A faulty group total: the bonus of one decision of the group, not of all.
RecidivismOfOneDecision(bonus, count) == bonus * (count - 1)

\* The amount added to stats.RecidivismBoosts for one value with count
\* decisions: each of the count decisions got bonus * (count - 1).
RecidivismOfGroup(bonus, count) == bonus * (count - 1) * count

\* A faulty bucket test: a histogram that is not cumulative, each decision
\* counted only under the first threshold it does not exceed.
InFirstBucketOnly(score, threshold) ==
    /\ score <= threshold
    /\ \A k \in 1..Len(ScoreBucketThresholds) :
          ScoreBucketThresholds[k] < threshold => score > ScoreBucketThresholds[k]

\* `if d.Score <= threshold` in the loop over ScoreBucketThresholds.
InBucket(score, threshold) == score <= threshold

\* The Stats ScoreAndTruncateWithStats returns for an empty input: the
\* counters zero and the maps made but empty.
EmptyStats ==
    [TotalDecisions |-> 0, ReturnedDecisions |-> 0, DroppedDecisions |-> 0,
     MinScore |-> 0, MaxScore |-> 0, TotalScore |-> 0,
     ScoreDistribution |-> EmptyMap, OriginKept |-> EmptyMap,
     OriginDropped |-> EmptyMap, ScenarioKept |-> EmptyMap,
     ScenarioDropped |-> EmptyMap, MedianScore |-> 0, ScoreCutoff |-> 0,
     ScoreBuckets |-> EmptyMap,
     RecidivismIPs |-> 0, RecidivismBoosts |-> 0, DroppedIPs |-> {}]

\* The body of ScoreAndTruncateWithStats after the sort, for a non-empty
\* sorted slice.  AvgScore is TotalScore / TotalDecisions.  A bucket that
\* was never incremented is absent from the Go map and reads as 0.
StatsOf(sorted, maxN) ==
    LET n == Len(sorted)
        result == Truncate(sorted, maxN)
        dropped == DroppedTail(sorted, maxN)
        mid == n \div 2
        groups == Tally(sorted, ValueOf)
        repeated == {v \in DOMAIN groups : groups[v] > 1}
        first(i) == \A j \in 1..(i - 1) : sorted[j].Value # sorted[i].Value
        boosts == [i \in 1..n |->
                     LET count == groups[sorted[i].Value]
                     IN  IF first(i) /\ count > 1
                         THEN RecidivismOfGroup(recidivismBonus, count) ELSE 0]
        hit == {ScoreBucketThresholds[k] : k \in 1..Len(ScoreBucketThresholds)}
    IN  [TotalDecisions |-> n,
         ReturnedDecisions |-> Len(result),
         DroppedDecisions |-> n - Len(result),
         MinScore |-> sorted[n].Score,
         MaxScore |-> sorted[1].Score,
         TotalScore |-> SumSeq([i \in 1..n |-> sorted[i].Score]),
         ScoreDistribution |-> Tally(sorted, ScenarioOf),
         OriginKept |-> Tally(result, OriginOf),
         OriginDropped |-> Tally(dropped, OriginOf),
         ScenarioKept |-> Tally(result, ScenarioOf),
         ScenarioDropped |-> Tally(dropped, ScenarioOf),
         MedianScore |-> IF n % 2 = 0
                         THEN TruncDiv(sorted[mid].Score + sorted[mid + 1].Score, 2)
                         ELSE sorted[mid + 1].Score,
         ScoreCutoff |-> IF Len(result) > 0 THEN result[Len(result)].Score ELSE 0,
         ScoreBuckets |->
            [t \in {h \in hit : \E i \in 1..n : InBucket(sorted[i].Score, h)} |->
                Cardinality({i \in 1..n : InBucket(sorted[i].Score, t)})],
         RecidivismIPs |-> IF recidivismBonus > 0 THEN Cardinality(repeated) ELSE 0,
         RecidivismBoosts |-> IF recidivismBonus > 0 THEN SumSeq(boosts) ELSE 0,
         DroppedIPs |-> {dropped[i].Value : i \in 1..Len(dropped)}]

\* Scorer.ScoreAndTruncateWithStats: the set of (result, stats) it may return.
ScoreAndTruncateWithStats(decisions, maxN, clock) ==
    IF Len(decisions) = 0
    THEN { [result |-> decisions, stats |-> EmptyStats] }
    ELSE { [result |-> Truncate(sorted, maxN), stats |-> StatsOf(sorted, maxN)] :
             sorted \in ScoreAndSort(decisions, clock) }

\* ------------------------------------------------------------------------
\* proxy.Handler: state
\* ------------------------------------------------------------------------
VARIABLES
    cache,             \* Handler.cache, a slice that may be nil
    cacheTime,         \* Handler.cacheTime
    cacheStats,        \* Handler.cacheStats
    cacheHits,         \* Handler.cacheHits
    cacheMisses,       \* Handler.cacheMisses
    totalRequests,     \* Handler.totalRequests
    failedRequests,    \* Handler.failedRequests
    lastUpstreamCall,  \* Handler.lastUpstreamCall
    droppedIPs,        \* Handler.droppedIPs
    req                \* the request each client has in the handler

\* What the downstream side does in a run: which clients send requests, the
\* paths they ask for, and whether they cancel requests or let the upstream
\* timeout expire; and whether the configuration enables the false-negative
\* checker.
VARIABLE workload

handlerVars ==
    <<cache, cacheTime, cacheStats, cacheHits, cacheMisses, totalRequests,
      failedRequests, lastUpstreamCall, droppedIPs, req>>

\* The downstream clients, each with at most one request in flight.
Clients == {"c1", "c2"}

\* A Go slice: nil, or a (possibly empty) sequence of elements.
NilSlice == [isNil |-> TRUE, elems |-> <<>>]
Slice(elems) == [isNil |-> FALSE, elems |-> elems]

NoReply == [json |-> "", deleted |-> <<>>]

\* What a request remembers of the reply upstream gave it: "cancelled" for a
\* call that the request's context ended, "failed" for any other call that
\* returned an error, else the kind of body, and for a stream the deleted
\* decisions as upstream sent them.
Remember(err, reply, deleted) ==
    [json |-> IF reply.kind = "cancelled" THEN "cancelled"
              ELSE IF err THEN "failed" ELSE reply.json,
     deleted |-> deleted]
NoResponse == [status |-> 0, json |-> "", items |-> <<>>, deleted |-> <<>>]

\* No request was forwarded.
NoForward == [method |-> "", url |-> "", body |-> "", headers |-> {}]

\* A client with no request.  A request carries the locals of the handler
\* functions (zeroed again when they return), the reply upstream gave it, and
\* the response written.
NoRequest ==
    [pc |-> "idle", path |-> "", method |-> "",
     decisions |-> NilSlice, stats |-> EmptyStats, fromCache |-> FALSE,
     slotStored |-> FALSE, slotFresh |-> FALSE, slot |-> 0,
     upstream |-> NoReply, resp |-> NoResponse, fwd |-> NoForward]

\* Health.Path and Metrics.Path with their Enabled flags, as Load defaults
\* them.
HealthPath == "/health"
MetricsPath == "/metrics"
HealthEnabled == TRUE
MetricsEnabled == TRUE

\* The paths ServeHTTP routes to a handler of its own.
RoutedPaths == {"/v1/decisions", "/v1/decisions/stream", HealthPath, MetricsPath}

\* Every path a client of the model may ask for; /v1/alerts is not routed.
AllPaths == RoutedPaths \cup {"/v1/alerts"}

\* UpstreamLAPIURL and UpstreamLAPIKey.
UpstreamLAPIURL == "http://lapi:8080"
UpstreamLAPIKey == "sidecar-key"

\* The inbound request of the model for a method and a path: its request
\* URI, its body and its headers (a bouncer sends a key of its own).
Inbound(method, path) ==
    [method |-> method, uri |-> path,
     body |-> IF method = "POST" THEN "payload" ELSE "",
     headers |-> {<<"User-Agent", "bouncer">>, <<"X-Api-Key", "bouncer-key">>}]


\* proxy.New: the zero Handler.
HandlerInit ==
    /\ cache = NilSlice
    /\ cacheTime = ZeroTime
    /\ cacheStats = EmptyStats
    /\ cacheHits = 0 /\ cacheMisses = 0
    /\ totalRequests = 0 /\ failedRequests = 0
    /\ lastUpstreamCall = ZeroTime
    /\ droppedIPs = {}
    /\ req = [c \in Clients |-> NoRequest]

\* ------------------------------------------------------------------------
\* The upstream LAPI as the client sees it
\* ------------------------------------------------------------------------

\* The arrays upstream answers /v1/decisions with ("[]" included).
UpstreamArrays == { <<>>, <<D5>>, <<D1, D2, D4>> }

\* What httpClient.Do and io.ReadAll can give GetDecisions: a transport
\* error (a cancelled or timed-out context included), a status, and a body
\* that is the literal null, a JSON null with white space around it, text
\* that is not JSON, or an array.
DecisionReplies ==
    { [kind |-> "error", status |-> 0, json |-> "", items |-> <<>>],
      [kind |-> "http", status |-> 500, json |-> "null", items |-> <<>>],
      [kind |-> "http", status |-> 204, json |-> "null", items |-> <<>>],
      [kind |-> "http", status |-> 200, json |-> "null", items |-> <<>>],
      [kind |-> "http", status |-> 200, json |-> "null-padded", items |-> <<>>],
      [kind |-> "http", status |-> 200, json |-> "malformed", items |-> <<>>] }
    \cup { [kind |-> "http", status |-> 200, json |-> "array", items |-> a] :
             a \in UpstreamArrays }

\* httpClient.Do returning the error of a context that was cancelled by the
\* client or that ran into the upstream timeout.
Cancelled == [kind |-> "cancelled", status |-> 0, json |-> "", items |-> <<>>]

\* The replies a call can get: the context can end only in a run whose
\* clients cancel.
WithCancel(replies, cancelled) ==
    IF workload.cancels THEN replies \cup {cancelled} ELSE replies

\* Client.GetDecisions on a reply: an error, or the decoded slice.  Only the
\* body that is exactly null becomes an empty slice; json.Unmarshal leaves the
\* slice nil for any other JSON null and makes an empty one for "[]".
GetDecisions(reply) ==
    IF reply.kind \in {"error", "cancelled"} THEN [err |-> TRUE, decisions |-> NilSlice]
    ELSE IF reply.status # 200 THEN [err |-> TRUE, decisions |-> NilSlice]
    ELSE IF reply.json = "null" THEN [err |-> FALSE, decisions |-> Slice(<<>>)]
    ELSE IF reply.json = "malformed" THEN [err |-> TRUE, decisions |-> NilSlice]
    ELSE IF reply.json = "null-padded" THEN [err |-> FALSE, decisions |-> NilSlice]
    ELSE [err |-> FALSE, decisions |-> Slice(ParseAll(DecodeAll(reply.items)))]

\* The stream objects upstream answers /v1/decisions/stream with in every
\* run.
StreamObjects ==
    { [kind |-> "error", status |-> 0, json |-> "", items |-> <<>>, deleted |-> <<>>],
      [kind |-> "http", status |-> 503, json |-> "object", items |-> <<>>,
       deleted |-> <<>>],
      [kind |-> "http", status |-> 200, json |-> "malformed", items |-> <<>>,
       deleted |-> <<>>] }
    \cup { [kind |-> "http", status |-> 200, json |-> "object",
            items |-> o[1], deleted |-> o[2]] :
             o \in { <<<<>>, <<D6, D3, D2>>>>,
                     <<<<D1, D2, D4>>, <<>>>>,
                     <<<<D1, D2, D4>>, <<D6, D3, D2>>>> } }

\* Later polls of a run in which upstream has news between the polls: a
\* decision not sent before, and one sent with the deletion of another.
StreamDeltas ==
    { [kind |-> "http", status |-> 200, json |-> "object",
       items |-> o[1], deleted |-> o[2]] :
         o \in { << <<D5>>, << >> >>, << <<D3>>, <<D1>> >> } }

\* The stream objects upstream answers /v1/decisions/stream with.
StreamReplies ==
    IF workload.deltas THEN StreamObjects \cup StreamDeltas ELSE StreamObjects

\* Client.GetDecisionsStream on a reply: only the new decisions get their
\* parsed fields.
GetDecisionsStream(reply) ==
    IF reply.kind \in {"error", "cancelled"} \/ reply.status # 200 \/ reply.json = "malformed"
    THEN [err |-> TRUE, New |-> <<>>, Deleted |-> <<>>]
    ELSE [err |-> FALSE, New |-> ParseAll(DecodeAll(reply.items)),
          Deleted |-> DecodeAll(reply.deleted)]

\* json.NewEncoder(w).Encode of a []lapi.Decision.
EncodeSlice(slice) ==
    IF slice.isNil
    THEN [status |-> 200, json |-> "null-newline", items |-> <<>>, deleted |-> <<>>]
    ELSE [status |-> 200, json |-> "array", items |-> EncodeAll(slice.elems),
          deleted |-> <<>>]

\* A faulty stream body: deleted is cut to max_decisions like new.
WriteStreamCut(new, deleted) ==
    [status |-> 200, json |-> "object", items |-> EncodeAll(new),
     deleted |-> EncodeAll(IF Len(deleted) <= maxDecisions THEN deleted
                           ELSE SubSeq(deleted, 1, maxDecisions))]

\* A faulty body: an empty result is written as an empty array.
WriteDecisionsEmptyArray(slice) ==
    IF Len(slice.elems) = 0
    THEN [status |-> 200, json |-> "array", items |-> <<>>, deleted |-> <<>>]
    ELSE EncodeSlice(slice)

\* The body handleDecisions writes: the literal null for an empty result.
WriteDecisions(slice) ==
    IF Len(slice.elems) = 0
    THEN [status |-> 200, json |-> "null", items |-> <<>>, deleted |-> <<>>]
    ELSE EncodeSlice(slice)

\* The body handleDecisionsStream writes for the stream it holds.
WriteStream(new, deleted) ==
    [status |-> 200, json |-> "object", items |-> EncodeAll(new),
     deleted |-> EncodeAll(deleted)]

\* http.Error(w, text, status)
HttpError(status) ==
    [status |-> status, json |-> "text", items |-> <<>>, deleted |-> <<>>]

\* ------------------------------------------------------------------------
\* proxy.Handler: the steps of a request
\* ------------------------------------------------------------------------

\* The switch of ServeHTTP on the path, with the method test that opens
\* handleDecisions and handleDecisionsStream: the request as it stands when
\* the handler chosen has to act next, or has already answered.
Route(path, method) ==
    LET r == [NoRequest EXCEPT !.path = path, !.method = method]
        answered(status) == [r EXCEPT !.pc = "done", !.resp = HttpError(status)]
    IN  CASE path = "/v1/decisions" ->
               IF method # "GET" THEN answered(405) ELSE [r EXCEPT !.pc = "lookup"]
          [] path = "/v1/decisions/stream" ->
               IF method # "GET" THEN answered(405) ELSE [r EXCEPT !.pc = "stream"]
          [] path = HealthPath ->
               IF HealthEnabled THEN [r EXCEPT !.pc = "health"] ELSE answered(404)
          [] path = MetricsPath ->
               IF MetricsEnabled THEN [r EXCEPT !.pc = "metrics"] ELSE answered(404)
          [] OTHER -> [r EXCEPT !.pc = "proxy"]

\* ServeHTTP counts the request and routes it.
ServeHTTP(c) ==
    /\ c \in workload.clients
    /\ req[c].pc \in {"idle", "done"}
    /\ totalRequests < MaxRequests
    /\ totalRequests' = totalRequests + 1
    /\ \E path \in workload.paths, method \in workload.methods :
         req' = [req EXCEPT ![c] = Route(path, method)]
    /\ UNCHANGED <<cache, cacheTime, cacheStats, cacheHits, cacheMisses,
                   failedRequests, lastUpstreamCall,
                   droppedIPs>>

\* getCachedDecisions, the read under RLock and the validity test.  slotStored,
\* slotFresh and slot record what the slot was at that moment.
getCachedDecisions(c) ==
    /\ req[c].pc = "lookup"
    /\ LET valid == ~cache.isNil /\ now - cacheTime < cacheTTL
       IN  req' = [req EXCEPT ![c] =
                     [@ EXCEPT !.pc = IF valid THEN "hit" ELSE "fetch",
                               !.decisions = IF valid THEN cache ELSE NilSlice,
                               !.stats = IF valid THEN cacheStats ELSE EmptyStats,
                               !.fromCache = valid,
                               !.slotStored = (cacheTime # ZeroTime),
                               !.slotFresh = (now - cacheTime < cacheTTL),
                               !.slot = cacheMisses]]
    /\ UNCHANGED <<cache, cacheTime, cacheStats, cacheHits, cacheMisses,
                   totalRequests, failedRequests, lastUpstreamCall, droppedIPs>>

\* A faulty hit: the cached decisions are scored and sorted again before the
\* body is written.
ServeFromCacheRescored(c) ==
    /\ req[c].pc = "hit"
    /\ cacheHits' = cacheHits + 1
    /\ \E r \in ScoreAndTruncate(req[c].decisions.elems, maxDecisions, now) :
         req' = [req EXCEPT ![c] =
                   [@ EXCEPT !.pc = "done",
                             !.decisions = NilSlice, !.stats = EmptyStats,
                             !.resp = WriteDecisions(Slice(r))]]
    /\ UNCHANGED <<cache, cacheTime, cacheStats, cacheMisses, totalRequests,
                   failedRequests, lastUpstreamCall, droppedIPs>>

\* The rest of a hit: cacheHits++ under the lock, then the body is written.
ServeFromCache(c) ==
    /\ req[c].pc = "hit"
    /\ cacheHits' = cacheHits + 1
    /\ req' = [req EXCEPT ![c] =
                 [@ EXCEPT !.pc = "done",
                           !.decisions = NilSlice, !.stats = EmptyStats,
                           !.resp = WriteDecisions(req[c].decisions)]]
    /\ UNCHANGED <<cache, cacheTime, cacheStats, cacheMisses, totalRequests,
                   failedRequests, lastUpstreamCall,
                   droppedIPs>>

\* A faulty error branch: the slot is emptied when upstream fails.
fetchFailedDroppingSlot(c, reply) ==
    /\ failedRequests' = failedRequests + 1
    /\ cache' = NilSlice
    /\ cacheTime' = ZeroTime
    /\ req' = [req EXCEPT ![c] =
                 [@ EXCEPT !.pc = "done",
                           !.upstream = Remember(TRUE, reply, <<>>),
                           !.resp = HttpError(502)]]
    /\ UNCHANGED <<cacheStats, cacheHits, cacheMisses, totalRequests,
                   lastUpstreamCall, droppedIPs>>

\* handleDecisions when fetchAndScoreDecisions returned an error: the failure
\* is counted and 502 is written.
fetchFailed(c, reply) ==
    /\ failedRequests' = failedRequests + 1
    /\ req' = [req EXCEPT ![c] =
                 [@ EXCEPT !.pc = "done",
                           !.upstream = Remember(TRUE, reply, <<>>),
                           !.resp = HttpError(502)]]
    /\ UNCHANGED <<cache, cacheTime, cacheStats, cacheHits, cacheMisses,
                   totalRequests, lastUpstreamCall, droppedIPs>>

\* fetchAndScoreDecisions after GetDecisions returned decisions: the call is
\* timed and the decisions are scored and truncated.  An empty input comes
\* back as the slice it was, nil or not.
fetchScored(c, reply, decisions) ==
    /\ lastUpstreamCall' = now
    /\ \E r \in ScoreAndTruncateWithStats(decisions.elems, maxDecisions, now) :
         req' = [req EXCEPT ![c] =
                   [@ EXCEPT !.pc = "store",
                             !.upstream = Remember(FALSE, reply, <<>>),
                             !.decisions =
                                [isNil |-> decisions.isNil /\ Len(r.result) = 0,
                                 elems |-> r.result],
                             !.stats = r.stats]]
    /\ UNCHANGED <<cache, cacheTime, cacheStats, cacheHits, cacheMisses,
                   totalRequests, failedRequests, droppedIPs>>

\* fetchAndScoreDecisions at the moment upstream answers.
fetchAndScoreDecisions(c) ==
    /\ req[c].pc = "fetch"
    /\ \E reply \in WithCancel(DecisionReplies, Cancelled) :
         LET got == GetDecisions(reply)
         IN  IF got.err THEN fetchFailed(c, reply)
             ELSE fetchScored(c, reply, got.decisions)

\* setCachedDecisions, the part under cacheMu.
setCachedDecisions(c) ==
    /\ req[c].pc = "store"
    /\ cache' = req[c].decisions
    /\ cacheTime' = now
    /\ cacheStats' = req[c].stats
    /\ cacheMisses' = cacheMisses + 1
    /\ req' = [req EXCEPT ![c] = [@ EXCEPT !.pc = "dropped",
                                           !.slot = cacheMisses + 1]]
    /\ UNCHANGED <<cacheHits, totalRequests, failedRequests, lastUpstreamCall, droppedIPs>>

\* setCachedDecisions, the part under droppedIPsMu; the body is written next.
setDroppedIPs(c) ==
    /\ req[c].pc = "dropped"
    /\ droppedIPs' = req[c].stats.DroppedIPs
    /\ req' = [req EXCEPT ![c] =
                 [@ EXCEPT !.pc = "done",
                           !.decisions = NilSlice, !.stats = EmptyStats,
                           !.resp = WriteDecisions(req[c].decisions)]]
    /\ UNCHANGED <<cache, cacheTime, cacheStats, cacheHits, cacheMisses,
                   totalRequests, failedRequests, lastUpstreamCall>>

\* A faulty stream handler: a valid slot is served as the stream and counted
\* as a hit, and upstream is asked (here, in vain) only without one.
handleDecisionsStreamCached(c) ==
    /\ req[c].pc = "stream"
    /\ IF ~cache.isNil /\ now - cacheTime < cacheTTL
       THEN /\ cacheHits' = cacheHits + 1
            /\ req' = [req EXCEPT ![c] =
                         [@ EXCEPT !.pc = "done",
                                   !.resp = WriteStream(cache.elems, <<>>)]]
            /\ UNCHANGED failedRequests
       ELSE /\ failedRequests' = failedRequests + 1
            /\ req' = [req EXCEPT ![c] =
                         [@ EXCEPT !.pc = "done",
                                   !.upstream = [json |-> "failed", deleted |-> <<>>],
                                   !.resp = HttpError(502)]]
            /\ UNCHANGED cacheHits
    /\ UNCHANGED <<cache, cacheTime, cacheStats, cacheMisses, totalRequests,
                   lastUpstreamCall, droppedIPs>>

\* handleDecisionsStream when upstream answers: the error branch, or the
\* scoring of stream.New when it is not empty.
handleDecisionsStream(c) ==
    /\ req[c].pc = "stream"
    /\ \E reply \in WithCancel(StreamReplies,
                                 [kind |-> "cancelled", status |-> 0, json |-> "",
                                  items |-> <<>>, deleted |-> <<>>]) :
         LET stream == GetDecisionsStream(reply)
         IN  IF stream.err
             THEN /\ failedRequests' = failedRequests + 1
                  /\ req' = [req EXCEPT ![c] =
                               [@ EXCEPT !.pc = "done",
                                         !.upstream = Remember(TRUE, reply, <<>>),
                                         !.resp = HttpError(502)]]
                  /\ UNCHANGED lastUpstreamCall
             ELSE /\ lastUpstreamCall' = now
                  /\ UNCHANGED failedRequests
                  /\ IF Len(stream.New) > 0
                     THEN \E r \in ScoreAndTruncateWithStats(stream.New,
                                                            maxDecisions, now) :
                            req' = [req EXCEPT ![c] =
                                      [@ EXCEPT !.pc = "streamDropped",
                                                !.upstream = Remember(FALSE, reply, reply.deleted),
                                                !.decisions = Slice(r.result),
                                                !.stats = r.stats,
                                                !.resp = WriteStream(r.result,
                                                            stream.Deleted)]]
                     ELSE req' = [req EXCEPT ![c] =
                                    [@ EXCEPT !.pc = "done",
                                              !.upstream = Remember(FALSE, reply, reply.deleted),
                                              !.resp = WriteStream(stream.New,
                                                            stream.Deleted)]]
    /\ UNCHANGED <<cache, cacheTime, cacheStats, cacheHits, cacheMisses,
                   totalRequests, droppedIPs>>

\* A faulty write: the dropped IPs of the pass are not stored.
streamKeepDroppedIPs(c) ==
    /\ req[c].pc = "streamDropped"
    /\ req' = [req EXCEPT ![c] = [@ EXCEPT !.pc = "streamStats"]]
    /\ UNCHANGED <<cache, cacheTime, cacheStats, cacheHits, cacheMisses,
                   totalRequests, failedRequests, lastUpstreamCall, droppedIPs>>

\* handleDecisionsStream: h.droppedIPs = stats.DroppedIPs under droppedIPsMu.
streamSetDroppedIPs(c) ==
    /\ req[c].pc = "streamDropped"
    /\ droppedIPs' = req[c].stats.DroppedIPs
    /\ req' = [req EXCEPT ![c] = [@ EXCEPT !.pc = "streamStats"]]
    /\ UNCHANGED <<cache, cacheTime, cacheStats, cacheHits, cacheMisses,
                   totalRequests, failedRequests, lastUpstreamCall>>

\* handleDecisionsStream: h.cacheStats = stats under cacheMu; the stream is
\* encoded next.
streamSetCacheStats(c) ==
    /\ req[c].pc = "streamStats"
    /\ cacheStats' = req[c].stats
    /\ req' = [req EXCEPT ![c] =
                 [@ EXCEPT !.pc = "done",
                           !.decisions = NilSlice, !.stats = EmptyStats]]
    /\ UNCHANGED <<cache, cacheTime, cacheHits, cacheMisses, totalRequests,
                   failedRequests, lastUpstreamCall,
                   droppedIPs>>

\* What upstream can answer a forwarded request with.
PassReplies ==
    { [kind |-> "error", status |-> 0, json |-> "", items |-> <<>>],
      [kind |-> "http", status |-> 200, json |-> "alerts", items |-> <<>>],
      [kind |-> "http", status |-> 404, json |-> "not-found", items |-> <<>>] }

\* A faulty forward: the credential header is left out.
ForwardWithoutKey(in) ==
    [method |-> in.method, url |-> UpstreamLAPIURL \o in.uri, body |-> in.body,
     headers |-> in.headers]

\* The request proxyPassthrough builds: the method, upstream_url + request
\* URI, the body, and the caller's headers added to X-Api-Key.
Forward(in) ==
    [method |-> in.method, url |-> UpstreamLAPIURL \o in.uri, body |-> in.body,
     headers |-> {<<"X-Api-Key", UpstreamLAPIKey>>} \cup in.headers]

\* proxyPassthrough: the request is sent on, and the status and body of the
\* answer are copied back, or 502 is written when client.Do fails.
proxyPassthrough(c) ==
    /\ req[c].pc = "proxy"
    /\ \E reply \in WithCancel(PassReplies, Cancelled) :
         LET err == reply.kind \in {"error", "cancelled"}
         IN  req' = [req EXCEPT ![c] =
                       [@ EXCEPT !.pc = "done",
                                 !.fwd = Forward(Inbound(req[c].method, req[c].path)),
                                 !.upstream = Remember(err, reply, <<>>),
                                 !.resp = IF err THEN HttpError(502)
                                          ELSE [status |-> reply.status,
                                                json |-> reply.json,
                                                items |-> <<>>, deleted |-> <<>>]]]
    /\ UNCHANGED <<cache, cacheTime, cacheStats, cacheHits, cacheMisses,
                   totalRequests, failedRequests, lastUpstreamCall, droppedIPs>>

\* Client.Health on a reply: healthy only for the status 200.
Health(reply) == reply.kind = "http" /\ reply.status = 200

\* handleHealth, whatever the method: 200 when upstream is healthy, else 503.
handleHealth(c) ==
    /\ req[c].pc = "health"
    /\ \E reply \in WithCancel({r \in PassReplies : r.status # 404}, Cancelled) :
         req' = [req EXCEPT ![c] =
                   [@ EXCEPT !.pc = "done",
                             !.resp = [status |-> IF Health(reply) THEN 200 ELSE 503,
                                       json |-> IF Health(reply) THEN "healthy"
                                                ELSE "degraded",
                                       items |-> <<>>, deleted |-> <<>>]]]
    /\ UNCHANGED <<cache, cacheTime, cacheStats, cacheHits, cacheMisses,
                   totalRequests, failedRequests, lastUpstreamCall, droppedIPs>>

\* handleMetrics, whatever the method: the counters are read and written out.
handleMetrics(c) ==
    /\ req[c].pc = "metrics"
    /\ req' = [req EXCEPT ![c] =
                 [@ EXCEPT !.pc = "done",
                           !.resp = [status |-> 200, json |-> "metrics",
                                     items |-> <<>>, deleted |-> <<>>]]]
    /\ UNCHANGED <<cache, cacheTime, cacheStats, cacheHits, cacheMisses,
                   totalRequests, failedRequests, lastUpstreamCall, droppedIPs>>

\* ------------------------------------------------------------------------
\* proxy.Handler: the false-negative auditor
\* ------------------------------------------------------------------------
VARIABLES
    falseNegativesTotal,     \* Handler.falseNegativesTotal
    falseNegativeLastCheck,  \* Handler.falseNegativeLastCheck, a unix time
    aud                      \* the auditor goroutine

auditorVars == <<falseNegativesTotal, falseNegativeLastCheck, aud>>

\* time.Time.Unix of a clock value (the model counts both in the same unit).
Unix(t) == t

\* An alert as GetAlerts decodes it.
Alert(id, scenario, ip, value) ==
    [ID |-> id, Scenario |-> scenario,
     Source |-> [IP |-> ip, Value |-> value, Scope |-> "ip"]]

A1 == Alert(100, "ssh-bf", "1.2.3.4", "1.2.3.4")
A2 == Alert(101, "http-probing", "9.8.7.6", "")
A3 == Alert(102, "manual", "", "")
A4 == Alert(103, "ssh-bf", "1.2.3.4", "8.8.8.8")
A5 == Alert(104, "http-bf", "", "1.2.3.4")

\* What upstream can answer /v1/alerts with.
AlertReplies ==
    { [kind |-> "error", status |-> 0, json |-> "", items |-> <<>>],
      [kind |-> "http", status |-> 500, json |-> "null", items |-> <<>>],
      [kind |-> "http", status |-> 200, json |-> "null", items |-> <<>>],
      [kind |-> "http", status |-> 200, json |-> "malformed", items |-> <<>>] }
    \cup { [kind |-> "http", status |-> 200, json |-> "array", items |-> a] :
             a \in { <<A3, A4>>, <<A1, A2, A3>>, <<A5, A4, A1>> } }

\* Client.GetAlerts on a reply: an error, or the alerts.
GetAlerts(reply) ==
    IF reply.kind \in {"error", "cancelled"} THEN [err |-> TRUE, alerts |-> <<>>]
    ELSE IF reply.status # 200 THEN [err |-> TRUE, alerts |-> <<>>]
    ELSE IF reply.json = "malformed" THEN [err |-> TRUE, alerts |-> <<>>]
    ELSE [err |-> FALSE, alerts |-> reply.items]

\* A faulty loop: source.ip is preferred to source.value.
RECURSIVE CountFalseNegativesByIP(_, _)
CountFalseNegativesByIP(alerts, dropped) ==
    IF alerts = <<>> THEN 0
    ELSE LET alert == Head(alerts)
             ip == IF alert.Source.IP # "" THEN alert.Source.IP
                   ELSE alert.Source.Value
         IN  (IF ip # "" /\ ip \in dropped THEN 1 ELSE 0)
             + CountFalseNegativesByIP(Tail(alerts), dropped)

\* The cross-reference loop of runFalseNegativeCheck: fnCount after the
\* alerts have been walked.
RECURSIVE CountFalseNegatives(_, _)
CountFalseNegatives(alerts, dropped) ==
    IF alerts = <<>> THEN 0
    ELSE LET alert == Head(alerts)
             ip == IF alert.Source.Value # "" THEN alert.Source.Value
                   ELSE alert.Source.IP
         IN  (IF ip # "" /\ ip \in dropped THEN 1 ELSE 0)
             + CountFalseNegatives(Tail(alerts), dropped)

\* The auditor before StartBackgroundChecks.  dropped and alerts are the
\* locals of runFalseNegativeCheck (zeroed again when it returns), ticks
\* counts the ticks taken and outcome is how the last check ended.  cancelled
\* is the state of the goroutine's context, and stop is where a call of
\* StopBackgroundChecks stands: "none", "called" or "returned".
NoAuditor ==
    [pc |-> "off", dropped |-> {}, ticks |-> 0,
     outcome |-> "none", alerts |-> <<>>, cancelled |-> FALSE, stop |-> "none"]

AuditorInit ==
    /\ falseNegativesTotal = 0
    /\ falseNegativeLastCheck = 0
    /\ aud = NoAuditor

\* StartBackgroundChecks: the goroutine is started when the checker is
\* enabled, and nothing is started otherwise.
StartBackgroundChecks ==
    /\ aud.pc = "off"
    /\ aud.stop = "none"
    /\ aud' = [aud EXCEPT !.pc = IF workload.checker THEN "wait" ELSE "disabled"]
    /\ UNCHANGED <<falseNegativesTotal, falseNegativeLastCheck>>

\* A faulty tick: the alerts are fetched whatever droppedIPs holds.
falseNegativeCheckerAlwaysFetches ==
    /\ aud.pc = "wait"
    /\ aud.ticks < MaxChecks
    /\ aud' = [aud EXCEPT !.pc = "fetch", !.ticks = @ + 1,
                          !.dropped = droppedIPs]
    /\ UNCHANGED <<falseNegativesTotal, falseNegativeLastCheck>>

\* The ticker fires: runFalseNegativeCheck reads droppedIPs and, when it is
\* empty, stores the time of the check and returns.
falseNegativeChecker ==
    /\ aud.pc = "wait"
    /\ aud.ticks < MaxChecks
    /\ IF droppedIPs = {}
       THEN /\ falseNegativeLastCheck' = Unix(now)
            /\ aud' = [aud EXCEPT !.ticks = @ + 1, !.outcome = "empty"]
       ELSE /\ aud' = [aud EXCEPT !.pc = "fetch", !.ticks = @ + 1,
                                  !.dropped = droppedIPs]
            /\ UNCHANGED falseNegativeLastCheck
    /\ UNCHANGED falseNegativesTotal

\* A faulty check: a failed fetch of the alerts ends the goroutine.
runFalseNegativeCheckFatal ==
    /\ aud.pc = "fetch"
    /\ \E reply \in IF aud.cancelled THEN {Cancelled} ELSE AlertReplies :
         LET got == GetAlerts(reply)
         IN  IF got.err
             THEN aud' = [aud EXCEPT !.pc = "stopped", !.outcome = "failed",
                                     !.dropped = {}]
             ELSE aud' = [aud EXCEPT !.pc = "count", !.alerts = got.alerts]
    /\ UNCHANGED <<falseNegativesTotal, falseNegativeLastCheck>>

\* runFalseNegativeCheck when GetAlerts returns: on an error the check ends
\* there, else it holds the alerts.  A cancelled context fails the call.
runFalseNegativeCheck ==
    /\ aud.pc = "fetch"
    /\ \E reply \in IF aud.cancelled THEN {Cancelled} ELSE AlertReplies :
         LET got == GetAlerts(reply)
         IN  IF got.err
             THEN aud' = [aud EXCEPT !.pc = "wait", !.outcome = "failed",
                                     !.dropped = {}]
             ELSE aud' = [aud EXCEPT !.pc = "count", !.alerts = got.alerts]
    /\ UNCHANGED <<falseNegativesTotal, falseNegativeLastCheck>>

\* A faulty count: the alerts are counted against droppedIPs as it is when
\* the alerts have arrived.
runFalseNegativeCheckCountsCurrent ==
    /\ aud.pc = "count"
    /\ LET fnCount == CountFalseNegatives(aud.alerts, droppedIPs)
       IN  falseNegativesTotal' = falseNegativesTotal + fnCount
    /\ falseNegativeLastCheck' = Unix(now)
    /\ aud' = [aud EXCEPT !.pc = "wait", !.outcome = "checked",
                          !.dropped = {}, !.alerts = <<>>]

\* The rest of runFalseNegativeCheck: the alerts are counted against the
\* snapshot, the count is added to the total and the time of the check is
\* stored.
runFalseNegativeCheckCount ==
    /\ aud.pc = "count"
    /\ LET fnCount == CountFalseNegatives(aud.alerts, aud.dropped)
       IN  falseNegativesTotal' = falseNegativesTotal + fnCount
    /\ falseNegativeLastCheck' = Unix(now)
    /\ aud' = [aud EXCEPT !.pc = "wait", !.outcome = "checked",
                          !.dropped = {}, !.alerts = <<>>]

\* A faulty stop: the context of the goroutine is not cancelled before the
\* wait.
StopBackgroundChecksWithoutCancel ==
    /\ aud.stop = "none"
    /\ aud' = [aud EXCEPT !.stop = "called"]
    /\ UNCHANGED <<falseNegativesTotal, falseNegativeLastCheck>>

\* StopBackgroundChecks up to bgWg.Wait: the context of the goroutine is
\* cancelled when one was started (bgCancel is nil otherwise).
StopBackgroundChecks ==
    /\ aud.stop = "none"
    /\ aud' = [aud EXCEPT !.stop = "called",
                          !.cancelled = (aud.pc \notin {"off", "disabled"})]
    /\ UNCHANGED <<falseNegativesTotal, falseNegativeLastCheck>>

\* A faulty stop: StopBackgroundChecks returns without waiting for the
\* goroutine.
StopBackgroundChecksReturnsWithoutWait ==
    /\ aud.stop = "called"
    /\ aud' = [aud EXCEPT !.stop = "returned"]
    /\ UNCHANGED <<falseNegativesTotal, falseNegativeLastCheck>>

\* bgWg.Wait returns, and StopBackgroundChecks with it: no goroutine was
\* started, or the one started has returned.
StopBackgroundChecksReturns ==
    /\ aud.stop = "called"
    /\ aud.pc \in {"off", "disabled", "stopped"}
    /\ aud' = [aud EXCEPT !.stop = "returned"]
    /\ UNCHANGED <<falseNegativesTotal, falseNegativeLastCheck>>

\* The select of falseNegativeChecker takes ctx.Done: the goroutine returns.
falseNegativeCheckerStopped ==
    /\ aud.pc = "wait"
    /\ aud.cancelled
    /\ aud' = [aud EXCEPT !.pc = "stopped"]
    /\ UNCHANGED <<falseNegativesTotal, falseNegativeLastCheck>>

\* The clock advances.
Tick ==
    /\ now < StartTime + MaxTicks
    /\ now' = now + 1
    /\ UNCHANGED handlerVars

\* ------------------------------------------------------------------------
\* The parts of the program that have a specification of their own
\* ------------------------------------------------------------------------
VARIABLES
    mainPc,   \* where main stands, "none" when the handler runs without it
    task,     \* the goroutines of the lock discipline: program and position
    mu,       \* the three sync.RWMutex of the Handler
    call,     \* one call of a function of config or of writeTopNMetric
    downstream,     \* what a bouncer applying the stream responses holds
    slotQuery,      \* the query of the request that filled the cache slot
    countedAlerts,  \* the alerts that have added to falseNegativesTotal
    bg              \* bgCancel, bgWg and the goroutines StartBackgroundChecks made

\* What is recorded beside the handler only in the specification that needs
\* it.
NoRecord == [used |-> FALSE]

partVars ==
    <<mainPc, task, mu, call, downstream, slotQuery, countedAlerts, bg>>

recordVars == <<downstream, slotQuery, countedAlerts, bg>>

RecordsIdle ==
    /\ downstream = NoRecord
    /\ slotQuery = NoRecord
    /\ countedAlerts = NoRecord
    /\ bg = NoRecord

NoCall == [fn |-> "none"]

\* None of these parts is running.
PartsIdle ==
    /\ mainPc = "none"
    /\ task = <<>>
    /\ mu = <<>>
    /\ call = NoCall
    /\ RecordsIdle

\* ------------------------------------------------------------------------
\* The scorer on its own: one call of each entry point on a bounded input
\* ------------------------------------------------------------------------
VARIABLES
    sIn,      \* the decisions handed to the scorer
    sMax,     \* maxDecisions of the call
    sPhase,   \* which entry point has returned
    sOut,     \* the slice it returned
    sStats,   \* the Stats it returned
    sAgain    \* the slice a second ScoreAndTruncate returned for sOut

scorerVars == <<sIn, sMax, sPhase, sOut, sStats, sAgain>>

\* The sequences without repetition over a set, up to a length.
RECURSIVE SeqsUpTo(_, _)
SeqsUpTo(S, n) ==
    IF n = 0 THEN {<<>>}
    ELSE LET shorter == SeqsUpTo(S, n - 1)
         IN  shorter \cup
             { Append(q, x) : q \in {r \in shorter : Len(r) = n - 1},
                              x \in S }

Injective(q) == \A i, j \in 1..Len(q) : i # j => q[i] # q[j]

\* What GetDecisions hands to the scorer for an upstream array.
FromUpstream(ws) == ParseAll(DecodeAll(ws))

ScoringConfigs ==
    /\ recidivismBonus \in {-5, 0, 15, 120}
    /\ compiledScenarios \in {compilePatterns(o) : o \in PatternOrders}

ScorerIdle ==
    /\ sIn = <<>> /\ sMax = 0 /\ sPhase = "off"
    /\ sOut = <<>> /\ sStats = EmptyStats /\ sAgain = <<>>

ScorerInit ==
    /\ ScoringConfigs
    /\ maxDecisions = 1 /\ cacheTTL = 0
    /\ now = StartTime
    /\ sIn \in {FromUpstream(ws) : ws \in {q \in SeqsUpTo(Pool, MaxLen) : Injective(q)}}
    /\ sMax = 0 /\ sPhase = "input"
    /\ sOut = <<>> /\ sStats = EmptyStats /\ sAgain = <<>>
    /\ HandlerInit
    /\ AuditorInit
    /\ PartsIdle
    /\ workload = [clients |-> {}, paths |-> {}, methods |-> {}, cancels |-> FALSE,
                   checker |-> FALSE,
                   deltas |-> FALSE]

CallScoreAndSort ==
    /\ sPhase = "input"
    /\ \E sorted \in ScoreAndSort(sIn, now) : sOut' = sorted
    /\ sPhase' = "sorted"
    /\ UNCHANGED <<sIn, sMax, sStats, sAgain>>

CallScoreAndTruncateWithStats ==
    /\ sPhase = "input"
    /\ \E n \in 0..MaxN :
         \E r \in ScoreAndTruncateWithStats(sIn, n, now) :
            /\ sMax' = n
            /\ sOut' = r.result
            /\ sStats' = r.stats
    /\ sPhase' = "stats"
    /\ UNCHANGED <<sIn, sAgain>>

CallScoreAndTruncate ==
    /\ sPhase = "input"
    /\ \E n \in 0..MaxN :
         \E r \in ScoreAndTruncate(sIn, n, now) :
            /\ sMax' = n
            /\ sOut' = r
    /\ sPhase' = "once"
    /\ UNCHANGED <<sIn, sStats, sAgain>>

\* A second ScoreAndTruncate on the result of the first, with a maxDecisions
\* that is at least the length of that result, the clock not having moved.
\* sOut keeps the sequence the first call returned; the Go slice behind it is
\* sorted in place by the second call.
CallScoreAndTruncateAgain ==
    /\ sPhase = "once"
    /\ \E m \in Len(sOut)..MaxN :
         \E r \in ScoreAndTruncate(sOut, m, now) : sAgain' = r
    /\ sPhase' = "twice"
    /\ UNCHANGED <<sIn, sMax, sOut, sStats>>

ScorerNext ==
    \/ CallScoreAndSort
    \/ CallScoreAndTruncateWithStats
    \/ CallScoreAndTruncate
    \/ CallScoreAndTruncateAgain

vars ==
    <<now, configVars, scorerVars, handlerVars, workload, auditorVars, partVars>>

\* What a step of a request leaves alone besides the clock.
restOfHandler == <<configVars, scorerVars, workload, auditorVars, partVars>>

\* Config.Load with its defaults for the scoring, and a max_decisions and a
\* cache_ttl that pass Validate.
Init ==
    /\ recidivismBonus = 15
    /\ compiledScenarios = compilePatterns(<<"ssh-bf", "http-.*", ".*-bf">>)
    /\ maxDecisions \in {1, MaxCfgDecisions}
    /\ cacheTTL \in {0, 1}
    /\ now = StartTime
    /\ ScorerIdle
    /\ HandlerInit
    /\ AuditorInit
    /\ PartsIdle
    /\ workload = [clients |-> Clients,
                   paths |-> {"/v1/decisions", "/v1/decisions/stream"},
                   methods |-> {"GET", "POST"}, cancels |-> FALSE,
                   checker |-> FALSE,
                   deltas |-> FALSE]

Next ==
    \/ \E c \in Clients : ServeHTTP(c) /\ UNCHANGED <<now, restOfHandler>>
    \/ \E c \in Clients :
          getCachedDecisions(c) /\ UNCHANGED <<now, restOfHandler>>
    \/ \E c \in Clients :
          ServeFromCache(c) /\ UNCHANGED <<now, restOfHandler>>
    \/ \E c \in Clients :
          fetchAndScoreDecisions(c) /\ UNCHANGED <<now, restOfHandler>>
    \/ \E c \in Clients :
          setCachedDecisions(c) /\ UNCHANGED <<now, restOfHandler>>
    \/ \E c \in Clients :
          setDroppedIPs(c) /\ UNCHANGED <<now, restOfHandler>>
    \/ \E c \in Clients :
          handleDecisionsStream(c) /\ UNCHANGED <<now, restOfHandler>>
    \/ \E c \in Clients :
          streamSetDroppedIPs(c) /\ UNCHANGED <<now, restOfHandler>>
    \/ \E c \in Clients :
          streamSetCacheStats(c) /\ UNCHANGED <<now, restOfHandler>>
    \/ Tick /\ UNCHANGED restOfHandler

Spec == Init /\ [][Next]_vars

SpecScorer ==
    ScorerInit
    /\ [][ScorerNext
          /\ UNCHANGED <<now, configVars, handlerVars, workload, auditorVars,
                         partVars>>]_vars

\* The handler with one client that asks for every path with either method
\* and may cancel its requests.
RoutesInit ==
    /\ recidivismBonus = 15
    /\ compiledScenarios = compilePatterns(<<"ssh-bf", "http-.*", ".*-bf">>)
    /\ maxDecisions \in {1, MaxCfgDecisions}
    /\ cacheTTL \in {0, 1}
    /\ now = StartTime
    /\ ScorerIdle
    /\ HandlerInit
    /\ AuditorInit
    /\ PartsIdle
    /\ workload = [clients |-> {"c1"}, paths |-> AllPaths,
                   methods |-> {"GET", "POST"}, cancels |-> TRUE,
                   checker |-> FALSE,
                   deltas |-> FALSE]

RoutesNext ==
    \/ Next
    \/ \E c \in Clients : proxyPassthrough(c) /\ UNCHANGED <<now, restOfHandler>>
    \/ \E c \in Clients : handleHealth(c) /\ UNCHANGED <<now, restOfHandler>>
    \/ \E c \in Clients : handleMetrics(c) /\ UNCHANGED <<now, restOfHandler>>

SpecRoutes == RoutesInit /\ [][RoutesNext]_vars

\* The handler with its auditor and one client that polls the stream of
\* decisions.
AuditedInit ==
    /\ recidivismBonus = 15
    /\ compiledScenarios = compilePatterns(<<"ssh-bf", "http-.*", ".*-bf">>)
    /\ maxDecisions \in {1, MaxCfgDecisions}
    /\ cacheTTL = 1
    /\ now = StartTime
    /\ ScorerIdle
    /\ HandlerInit
    /\ AuditorInit
    /\ PartsIdle
    /\ \E enabled \in BOOLEAN :
          workload = [clients |-> {"c1"}, paths |-> {"/v1/decisions/stream"},
                      methods |-> {"GET"}, cancels |-> FALSE,
                      checker |-> enabled,
                   deltas |-> FALSE]

\* What a step of the auditor leaves alone.
restOfAuditor ==
    <<now, configVars, scorerVars, workload, handlerVars, partVars>>

AuditedNext ==
    \/ \E c \in Clients : ServeHTTP(c) /\ UNCHANGED <<now, restOfHandler>>
    \/ \E c \in Clients :
          handleDecisionsStream(c) /\ UNCHANGED <<now, restOfHandler>>
    \/ \E c \in Clients :
          streamSetDroppedIPs(c) /\ UNCHANGED <<now, restOfHandler>>
    \/ \E c \in Clients :
          streamSetCacheStats(c) /\ UNCHANGED <<now, restOfHandler>>
    \/ Tick /\ UNCHANGED restOfHandler
    \/ StartBackgroundChecks /\ UNCHANGED restOfAuditor
    \/ falseNegativeChecker /\ UNCHANGED restOfAuditor
    \/ runFalseNegativeCheck /\ UNCHANGED restOfAuditor
    \/ runFalseNegativeCheckCount /\ UNCHANGED restOfAuditor
    \/ StopBackgroundChecks /\ UNCHANGED restOfAuditor
    \/ falseNegativeCheckerStopped /\ UNCHANGED restOfAuditor
    \/ StopBackgroundChecksReturns /\ UNCHANGED restOfAuditor

SpecAuditor == AuditedInit /\ [][AuditedNext]_vars

\* The handler with its auditor enabled and a client whose polls of the
\* stream get different decisions, so that droppedIPs is replaced between
\* the polls.
SnapshotInit ==
    /\ recidivismBonus = 15
    /\ compiledScenarios = compilePatterns(<<"ssh-bf", "http-.*", ".*-bf">>)
    /\ maxDecisions = 1
    /\ cacheTTL = 1
    /\ now = StartTime
    /\ ScorerIdle
    /\ HandlerInit
    /\ AuditorInit
    /\ PartsIdle
    /\ workload = [clients |-> {"c1"}, paths |-> {"/v1/decisions/stream"},
                   methods |-> {"GET"}, cancels |-> FALSE, checker |-> TRUE,
                   deltas |-> TRUE]

SpecSnapshot == SnapshotInit /\ [][AuditedNext]_vars

\* The ids of the alerts the loop of runFalseNegativeCheck counts: those
\* whose source is in the snapshot.
HitAlerts(alerts, dropped) ==
    {alerts[i].ID : i \in {j \in 1..Len(alerts) :
                              CountFalseNegatives(<<alerts[j]>>, dropped) = 1}}

\* The handler with its auditor enabled, and the record of the alerts that
\* have been counted so far.
RecountInit ==
    /\ recidivismBonus = 15
    /\ compiledScenarios = compilePatterns(<<"ssh-bf", "http-.*", ".*-bf">>)
    /\ maxDecisions = 1
    /\ cacheTTL = 1
    /\ now = StartTime
    /\ ScorerIdle
    /\ HandlerInit
    /\ AuditorInit
    /\ mainPc = "none" /\ task = <<>> /\ mu = <<>> /\ call = NoCall
    /\ countedAlerts = [used |-> TRUE, ids |-> {}]
    /\ downstream = NoRecord /\ slotQuery = NoRecord /\ bg = NoRecord
    /\ workload = [clients |-> {"c1"}, paths |-> {"/v1/decisions/stream"},
                   methods |-> {"GET"}, cancels |-> FALSE, checker |-> TRUE,
                   deltas |-> FALSE]

\* The count of a check, the alerts it counted being recorded.
runFalseNegativeCheckCountRecorded ==
    /\ runFalseNegativeCheckCount
    /\ countedAlerts' =
          [countedAlerts EXCEPT !.ids = @ \cup HitAlerts(aud.alerts, aud.dropped)]
    /\ UNCHANGED <<now, configVars, scorerVars, workload, handlerVars, mainPc,
                   task, mu, call, downstream, slotQuery, bg>>

RecountNext ==
    \/ \E c \in Clients : ServeHTTP(c) /\ UNCHANGED <<now, restOfHandler>>
    \/ \E c \in Clients :
          handleDecisionsStream(c) /\ UNCHANGED <<now, restOfHandler>>
    \/ \E c \in Clients :
          streamSetDroppedIPs(c) /\ UNCHANGED <<now, restOfHandler>>
    \/ \E c \in Clients :
          streamSetCacheStats(c) /\ UNCHANGED <<now, restOfHandler>>
    \/ Tick /\ UNCHANGED restOfHandler
    \/ StartBackgroundChecks /\ UNCHANGED restOfAuditor
    \/ falseNegativeChecker /\ UNCHANGED restOfAuditor
    \/ runFalseNegativeCheck /\ UNCHANGED restOfAuditor
    \/ runFalseNegativeCheckCountRecorded
    \/ StopBackgroundChecks /\ UNCHANGED restOfAuditor
    \/ falseNegativeCheckerStopped /\ UNCHANGED restOfAuditor
    \/ StopBackgroundChecksReturns /\ UNCHANGED restOfAuditor

SpecRecount == RecountInit /\ [][RecountNext]_vars

\* The same under the scheduling the code relies on.  A call of GetAlerts
\* returns (the client's timeout, or the cancelled context, ends it), the
\* counting loop ends, and bgWg.Wait returns once the goroutine has; the
\* select of falseNegativeChecker chooses at random among its ready cases, so
\* a context that stays cancelled is taken in the end.
SpecAuditorFair ==
    /\ SpecAuditor
    /\ WF_vars(runFalseNegativeCheck /\ UNCHANGED restOfAuditor)
    /\ WF_vars(runFalseNegativeCheckCount /\ UNCHANGED restOfAuditor)
    /\ SF_vars(falseNegativeCheckerStopped /\ UNCHANGED restOfAuditor)
    /\ WF_vars(StopBackgroundChecksReturns /\ UNCHANGED restOfAuditor)

\* ------------------------------------------------------------------------
\* main: start, serve, and shut down on a signal
\* ------------------------------------------------------------------------

\* main after config.Load and proxy.New: no background task, no listener.
\* mainPc.at is where main stands; mainPc.server is the http.Server:
\* "unbound" before the goroutine of ListenAndServe has bound the listener,
\* "listening" while it accepts connections, "closed" once Shutdown has
\* closed the listener.
MainInit ==
    /\ recidivismBonus = 15
    /\ compiledScenarios = compilePatterns(<<"ssh-bf", "http-.*", ".*-bf">>)
    /\ maxDecisions = 1
    /\ cacheTTL = 1
    /\ now = StartTime
    /\ ScorerIdle
    /\ HandlerInit
    /\ AuditorInit
    /\ mainPc = [at |-> "loaded", server |-> "unbound"]
    /\ RecordsIdle
    /\ task = <<>>
    /\ mu = <<>>
    /\ call = NoCall
    /\ workload = [clients |-> {"c1"}, paths |-> {"/v1/decisions/stream"},
                   methods |-> {"GET"}, cancels |-> FALSE, checker |-> TRUE,
                   deltas |-> FALSE]

\* The process has not exited.
Running == mainPc.at \notin {"exited", "failed"}

\* What a step of main leaves alone besides the auditor and mainPc.
restOfMain ==
    <<now, configVars, scorerVars, workload, handlerVars, task, mu, call,
      recordVars>>

\* handler.StartBackgroundChecks(context.Background())
MainStartBackgroundChecks ==
    /\ mainPc.at = "loaded"
    /\ StartBackgroundChecks
    /\ mainPc' = [mainPc EXCEPT !.at = "started"]

\* go func() { ... server.ListenAndServe() ... }(), after which main waits
\* on the quit channel.
MainGoListenAndServe ==
    /\ mainPc.at = "started"
    /\ mainPc' = [mainPc EXCEPT !.at = "waiting"]
    /\ UNCHANGED auditorVars

\* server.ListenAndServe in its goroutine binds the listener and accepts; on
\* a server already shut down it returns ErrServerClosed without listening.
ListenAndServe ==
    /\ Running
    /\ mainPc.at # "loaded" /\ mainPc.at # "started"
    /\ mainPc.server = "unbound"
    /\ mainPc' = [mainPc EXCEPT !.server = "listening"]
    /\ UNCHANGED auditorVars

\* The listener accepts a connection and the server calls ServeHTTP.
Accept(c) ==
    /\ Running
    /\ mainPc.server = "listening"
    /\ ServeHTTP(c)

\* sig := <-quit
MainSignal ==
    /\ mainPc.at = "waiting"
    /\ mainPc' = [mainPc EXCEPT !.at = "signalled"]
    /\ UNCHANGED auditorVars

\* handler.StopBackgroundChecks() is called: bgCancel.
MainStopBackgroundChecks ==
    /\ mainPc.at = "signalled"
    /\ StopBackgroundChecks
    /\ mainPc' = [mainPc EXCEPT !.at = "stopping"]

\* handler.StopBackgroundChecks() returns: bgWg.Wait is over.
MainStopBackgroundChecksReturns ==
    /\ mainPc.at = "stopping"
    /\ StopBackgroundChecksReturns
    /\ mainPc' = [mainPc EXCEPT !.at = "stopped"]

\* server.Shutdown(ctx) is called: it closes the listener first.
MainShutdown ==
    /\ mainPc.at = "stopped"
    /\ mainPc' = [mainPc EXCEPT !.at = "draining", !.server = "closed"]
    /\ UNCHANGED auditorVars

\* server.Shutdown(ctx) returns: nil once no request is in flight, the
\* context's error after 30 seconds otherwise, and main exits with 0 or 1.
MainShutdownReturns ==
    /\ mainPc.at = "draining"
    /\ mainPc' = [mainPc EXCEPT !.at =
                    IF \A c \in Clients : req[c].pc \in {"idle", "done"}
                    THEN "exited" ELSE "failed"]
    /\ UNCHANGED auditorVars

MainNext ==
    \/ MainStartBackgroundChecks /\ UNCHANGED restOfMain
    \/ MainGoListenAndServe /\ UNCHANGED restOfMain
    \/ ListenAndServe /\ UNCHANGED restOfMain
    \/ \E c \in Clients : Accept(c) /\ UNCHANGED <<now, restOfHandler>>
    \/ \E c \in Clients :
          Running /\ handleDecisionsStream(c) /\ UNCHANGED <<now, restOfHandler>>
    \/ \E c \in Clients :
          Running /\ streamSetDroppedIPs(c) /\ UNCHANGED <<now, restOfHandler>>
    \/ \E c \in Clients :
          Running /\ streamSetCacheStats(c) /\ UNCHANGED <<now, restOfHandler>>
    \/ Running /\ Tick /\ UNCHANGED restOfHandler
    \/ Running /\ falseNegativeChecker /\ UNCHANGED restOfAuditor
    \/ Running /\ runFalseNegativeCheck /\ UNCHANGED restOfAuditor
    \/ Running /\ runFalseNegativeCheckCount /\ UNCHANGED restOfAuditor
    \/ Running /\ falseNegativeCheckerStopped /\ UNCHANGED restOfAuditor
    \/ MainSignal /\ UNCHANGED restOfMain
    \/ MainStopBackgroundChecks /\ UNCHANGED restOfMain
    \/ MainStopBackgroundChecksReturns /\ UNCHANGED restOfMain
    \/ MainShutdown /\ UNCHANGED restOfMain
    \/ MainShutdownReturns /\ UNCHANGED restOfMain

SpecMain == MainInit /\ [][MainNext]_vars

\* ------------------------------------------------------------------------
\* A bouncer that polls the stream and applies what it gets
\* ------------------------------------------------------------------------

\* One bouncer polls /v1/decisions/stream; it holds no decision yet.
DownstreamInit ==
    /\ recidivismBonus = 15
    /\ compiledScenarios = compilePatterns(<<"ssh-bf", "http-.*", ".*-bf">>)
    /\ maxDecisions \in {1, MaxCfgDecisions}
    /\ cacheTTL = 1
    /\ now = StartTime
    /\ ScorerIdle
    /\ HandlerInit
    /\ AuditorInit
    /\ mainPc = "none" /\ task = <<>> /\ mu = <<>> /\ call = NoCall
    /\ downstream = [used |-> TRUE, held |-> {}, applied |-> TRUE]
    /\ slotQuery = NoRecord /\ countedAlerts = NoRecord /\ bg = NoRecord
    /\ workload = [clients |-> {"c1"}, paths |-> {"/v1/decisions/stream"},
                   methods |-> {"GET"}, cancels |-> FALSE, checker |-> FALSE,
                   deltas |-> TRUE]

\* The ids of the decisions of a response body.
IDsOf(items) == {items[i].ID : i \in 1..Len(items)}

\* What a step of the bouncer leaves alone besides the handler and what it
\* holds.
restOfDownstream ==
    <<now, configVars, scorerVars, workload, auditorVars, mainPc, task, mu,
      call, slotQuery, countedAlerts, bg>>

\* The bouncer polls again once it has applied the last response.
Poll(c) ==
    /\ downstream.applied
    /\ ServeHTTP(c)
    /\ downstream' = [downstream EXCEPT !.applied = FALSE]

\* The bouncer applies the response it got: the new decisions are added and
\* the deleted ones removed (a decision in both is removed, the order that
\* leaves it with the fewest); any answer but 200 changes nothing.
Apply(c) ==
    /\ req[c].pc = "done"
    /\ ~downstream.applied
    /\ downstream' =
          [downstream EXCEPT
             !.applied = TRUE,
             !.held = IF req[c].resp.status = 200
                      THEN (@ \cup IDsOf(req[c].resp.items))
                              \ IDsOf(req[c].resp.deleted)
                      ELSE @]
    /\ UNCHANGED handlerVars

DownstreamNext ==
    \/ \E c \in Clients : Poll(c) /\ UNCHANGED restOfDownstream
    \/ \E c \in Clients :
          handleDecisionsStream(c) /\ UNCHANGED <<now, restOfHandler>>
    \/ \E c \in Clients :
          streamSetDroppedIPs(c) /\ UNCHANGED <<now, restOfHandler>>
    \/ \E c \in Clients :
          streamSetCacheStats(c) /\ UNCHANGED <<now, restOfHandler>>
    \/ \E c \in Clients : Apply(c) /\ UNCHANGED restOfDownstream

SpecDownstream == DownstreamInit /\ [][DownstreamNext]_vars

\* ------------------------------------------------------------------------
\* GET /v1/decisions with a query string
\* ------------------------------------------------------------------------

\* The query strings a bouncer asks /v1/decisions with; r.URL.Query() of each
\* is handed to fetchAndScoreDecisions and encoded again by GetDecisions.
Queries == {"", "ip=1.2.3.4", "scope=range"}

\* No request has filled the slot, or been made.
NoQuery == "(none)"

\* One bouncer asks for /v1/decisions.  slotQuery holds, for each client, the
\* query of its request (asked), the query GetDecisions sent upstream for it
\* (sent) and the query behind the slot its lookup read (got), and the query
\* of the request that filled the slot last (filled).
QueryInit ==
    /\ recidivismBonus = 15
    /\ compiledScenarios = compilePatterns(<<"ssh-bf", "http-.*", ".*-bf">>)
    /\ maxDecisions = 1
    /\ cacheTTL = 1
    /\ now = StartTime
    /\ ScorerIdle
    /\ HandlerInit
    /\ AuditorInit
    /\ mainPc = "none" /\ task = <<>> /\ mu = <<>> /\ call = NoCall
    /\ slotQuery = [used |-> TRUE,
                    asked |-> [c \in Clients |-> NoQuery],
                    sent |-> [c \in Clients |-> NoQuery],
                    got |-> [c \in Clients |-> NoQuery],
                    filled |-> NoQuery]
    /\ downstream = NoRecord /\ countedAlerts = NoRecord /\ bg = NoRecord
    /\ workload = [clients |-> {"c1"}, paths |-> {"/v1/decisions"},
                   methods |-> {"GET"}, cancels |-> FALSE, checker |-> FALSE,
                   deltas |-> FALSE]

\* What a step of a request with a query leaves alone besides the handler and
\* the queries.
restOfQuery ==
    <<now, configVars, scorerVars, workload, auditorVars, mainPc, task, mu,
      call, downstream, countedAlerts, bg>>

\* A request arrives with its query.
ServeHTTPWithQuery(c) ==
    /\ ServeHTTP(c)
    /\ \E q \in Queries :
         slotQuery' = [slotQuery EXCEPT !.asked[c] = q, !.sent[c] = NoQuery,
                                        !.got[c] = NoQuery]

\* getCachedDecisions takes no argument: the slot is read whatever the query.
getCachedDecisionsWithQuery(c) ==
    /\ getCachedDecisions(c)
    /\ slotQuery' = [slotQuery EXCEPT !.got[c] = slotQuery.filled]

\* fetchAndScoreDecisions hands r.URL.Query() to GetDecisions.
fetchAndScoreDecisionsWithQuery(c) ==
    /\ fetchAndScoreDecisions(c)
    /\ slotQuery' = [slotQuery EXCEPT !.sent[c] = slotQuery.asked[c]]

\* setCachedDecisions stores the decisions, not the query they answer.
setCachedDecisionsWithQuery(c) ==
    /\ setCachedDecisions(c)
    /\ slotQuery' = [slotQuery EXCEPT !.filled = slotQuery.sent[c]]

QueryNext ==
    \/ \E c \in Clients : ServeHTTPWithQuery(c) /\ UNCHANGED restOfQuery
    \/ \E c \in Clients : getCachedDecisionsWithQuery(c) /\ UNCHANGED restOfQuery
    \/ \E c \in Clients : ServeFromCache(c) /\ UNCHANGED <<now, restOfHandler>>
    \/ \E c \in Clients :
          fetchAndScoreDecisionsWithQuery(c) /\ UNCHANGED restOfQuery
    \/ \E c \in Clients : setCachedDecisionsWithQuery(c) /\ UNCHANGED restOfQuery
    \/ \E c \in Clients : setDroppedIPs(c) /\ UNCHANGED <<now, restOfHandler>>
    \/ Tick /\ UNCHANGED restOfHandler

SpecQuery == QueryInit /\ [][QueryNext]_vars

\* ------------------------------------------------------------------------
\* StartBackgroundChecks and StopBackgroundChecks called more than once
\* ------------------------------------------------------------------------

\* Calls of StartBackgroundChecks, and of StopBackgroundChecks, in one
\* behaviour.
MaxStarts == 2

\* A handler whose checker is enabled, before any call.  bg holds bgCancel
\* (the goroutine whose context it cancels, none while nil), the counter of
\* bgWg, the goroutines started (where each stands, the ticks it took, whether
\* its context is cancelled), the calls made so far and where a call of
\* StopBackgroundChecks stands.  No request is served, so droppedIPs stays
\* empty and a check ends at its first test.
BackgroundInit ==
    /\ recidivismBonus = 15
    /\ compiledScenarios = compilePatterns(<<"ssh-bf", "http-.*", ".*-bf">>)
    /\ maxDecisions = 1
    /\ cacheTTL = 1
    /\ now = StartTime
    /\ ScorerIdle
    /\ HandlerInit
    /\ AuditorInit
    /\ mainPc = "none" /\ task = <<>> /\ mu = <<>> /\ call = NoCall
    /\ bg = [used |-> TRUE, bgCancel |-> << >>, bgWg |-> 0, tasks |-> << >>,
             starts |-> 0, stops |-> 0, stop |-> "none"]
    /\ downstream = NoRecord /\ slotQuery = NoRecord /\ countedAlerts = NoRecord
    /\ workload = [clients |-> {}, paths |-> {}, methods |-> {},
                   cancels |-> FALSE, checker |-> TRUE, deltas |-> FALSE]

\* StartBackgroundChecks, called by a caller that is not inside
\* StopBackgroundChecks: a context is made and its cancel stored in bgCancel,
\* bgWg is incremented and a goroutine started.
StartBackgroundChecksAgain ==
    /\ bg.starts < MaxStarts
    /\ bg.stop # "called"
    /\ workload.checker
    /\ bg' = [bg EXCEPT
                !.starts = @ + 1,
                !.bgCancel = << Len(bg.tasks) + 1 >>,
                !.bgWg = @ + 1,
                !.tasks = Append(@, [pc |-> "wait", ticks |-> 0,
                                     cancelled |-> FALSE])]
    /\ UNCHANGED <<falseNegativesTotal, falseNegativeLastCheck>>

\* The ticker of a goroutine fires: runFalseNegativeCheck finds droppedIPs
\* empty, stores the time of the check and returns.
falseNegativeCheckerOf(i) ==
    /\ bg.tasks[i].pc = "wait"
    /\ bg.tasks[i].ticks < MaxChecks
    /\ droppedIPs = {}
    /\ falseNegativeLastCheck' = Unix(now)
    /\ bg' = [bg EXCEPT !.tasks[i].ticks = @ + 1]
    /\ UNCHANGED falseNegativesTotal

\* StopBackgroundChecks up to bgWg.Wait: bgCancel, when not nil, cancels the
\* context it was made with.
StopBackgroundChecksAgain ==
    /\ bg.stops < MaxStarts
    /\ bg.stop # "called"
    /\ bg' = [bg EXCEPT
                !.stops = @ + 1,
                !.stop = "called",
                !.tasks = IF bg.bgCancel = << >> THEN @
                          ELSE [@ EXCEPT ![bg.bgCancel[1]].cancelled = TRUE]]
    /\ UNCHANGED <<falseNegativesTotal, falseNegativeLastCheck>>

\* The select of a goroutine takes ctx.Done: it returns, and bgWg.Done runs.
falseNegativeCheckerStoppedOf(i) ==
    /\ bg.tasks[i].pc = "wait"
    /\ bg.tasks[i].cancelled
    /\ bg' = [bg EXCEPT !.tasks[i].pc = "stopped", !.bgWg = @ - 1]
    /\ UNCHANGED <<falseNegativesTotal, falseNegativeLastCheck>>

\* bgWg.Wait returns when the counter is zero, and StopBackgroundChecks with
\* it.
StopBackgroundChecksAgainReturns ==
    /\ bg.stop = "called"
    /\ bg.bgWg = 0
    /\ bg' = [bg EXCEPT !.stop = "returned"]
    /\ UNCHANGED <<falseNegativesTotal, falseNegativeLastCheck>>

\* What a step of these calls leaves alone.
restOfBackground ==
    <<now, configVars, scorerVars, workload, handlerVars, aud, mainPc, task,
      mu, call, downstream, slotQuery, countedAlerts>>

BackgroundNext ==
    \/ StartBackgroundChecksAgain /\ UNCHANGED restOfBackground
    \/ \E i \in 1..Len(bg.tasks) :
          falseNegativeCheckerOf(i) /\ UNCHANGED restOfBackground
    \/ StopBackgroundChecksAgain /\ UNCHANGED restOfBackground
    \/ \E i \in 1..Len(bg.tasks) :
          falseNegativeCheckerStoppedOf(i) /\ UNCHANGED restOfBackground
    \/ StopBackgroundChecksAgainReturns /\ UNCHANGED restOfBackground
    \/ Tick /\ UNCHANGED restOfHandler

SpecBackground == BackgroundInit /\ [][BackgroundNext]_vars

\* ------------------------------------------------------------------------
\* The lock discipline of proxy.Handler
\* ------------------------------------------------------------------------

\* Handler.cacheMu, Handler.metricsMu, Handler.droppedIPsMu.
Mutexes == {"cacheMu", "metricsMu", "droppedIPsMu"}

\* The goroutines: two requests at a time and the auditor.
RequestTasks == {"r1", "r2"}
LockTasks == RequestTasks \cup {"auditor"}

\* One operation of a goroutine on a mutex, or a call of upstream.
Op(kind, what) == [op |-> kind, on |-> what]

\* mu.Lock(); ...; mu.Unlock()
Section(m) == <<Op("Lock", m), Op("Unlock", m)>>

\* mu.RLock(); ...; mu.RUnlock()
ReadSection(m) == <<Op("RLock", m), Op("RUnlock", m)>>

\* ServeHTTP before the switch: totalRequests++ under metricsMu.
ProgServeHTTP == Section("metricsMu")

\* getCachedDecisions on a hit (the read, then cacheHits++) and on a miss.
ProgGetCachedDecisionsHit == ReadSection("cacheMu") \o Section("cacheMu")
ProgGetCachedDecisionsMiss == ReadSection("cacheMu")

\* A faulty fetch: the call of upstream is timed under metricsMu.
ProgFetchHoldingMetricsMu ==
    <<Op("Lock", "metricsMu"), Op("Call", "GetDecisions"),
      Op("Unlock", "metricsMu")>>

\* fetchAndScoreDecisions when GetDecisions returns decisions: the call, then
\* upstreamLatency and lastUpstreamCall under metricsMu.
ProgFetchAndScoreDecisions ==
    <<Op("Call", "GetDecisions")>> \o Section("metricsMu")

\* setCachedDecisions: the slot under cacheMu, then droppedIPs under its own.
ProgSetCachedDecisions == Section("cacheMu") \o Section("droppedIPsMu")

\* handleDecisions: a hit; a miss whose fetch fails (failedRequests++ under
\* metricsMu); a miss that is fetched and stored.
ProgHandleDecisions ==
    { ProgGetCachedDecisionsHit,
      ProgGetCachedDecisionsMiss \o <<Op("Call", "GetDecisions")>>
         \o Section("metricsMu"),
      ProgGetCachedDecisionsMiss \o ProgFetchAndScoreDecisions
         \o ProgSetCachedDecisions }

\* handleDecisionsStream: the call, then failedRequests++ or the latency
\* under metricsMu, then for a non-empty new droppedIPs and cacheStats.
ProgHandleDecisionsStream ==
    { <<Op("Call", "GetDecisionsStream")>> \o Section("metricsMu"),
      <<Op("Call", "GetDecisionsStream")>> \o Section("metricsMu")
         \o Section("droppedIPsMu") \o Section("cacheMu") }

\* handleHealth, handleMetrics and proxyPassthrough.
ProgHandleHealth == <<Op("Call", "Health")>>
ProgHandleMetrics == ReadSection("metricsMu") \o ReadSection("cacheMu")
ProgProxyPassthrough == <<Op("Call", "Do")>>

\* The programs of a request: ServeHTTP, then the handler of its path.
RequestProgs ==
    { ProgServeHTTP \o p :
        p \in ProgHandleDecisions \cup ProgHandleDecisionsStream
              \cup {ProgHandleHealth, ProgHandleMetrics, ProgProxyPassthrough} }

\* runFalseNegativeCheck: the snapshot under droppedIPsMu, then GetAlerts
\* unless the snapshot is empty (the counters are atomics).
ProgRunFalseNegativeCheck ==
    { ReadSection("droppedIPsMu"),
      ReadSection("droppedIPsMu") \o <<Op("Call", "GetAlerts")>> }

ProgsOf(t) ==
    IF t \in RequestTasks THEN RequestProgs ELSE ProgRunFalseNegativeCheck

IdleTask == [prog |-> <<>>, i |-> 1, inCall |-> FALSE]
FreeMutex == [w |-> "none", r |-> {}]

\* The operation goroutine t is at, if any.
AtOp(t, kind) ==
    /\ task[t].i <= Len(task[t].prog)
    /\ task[t].prog[task[t].i].op = kind

\* t has done the operation it was at; a goroutine that has done its last
\* one has returned.
Advance(t) ==
    IF task[t].i = Len(task[t].prog) THEN [task EXCEPT ![t] = IdleTask]
    ELSE [task EXCEPT ![t] = [@ EXCEPT !.i = @ + 1, !.inCall = FALSE]]

\* A request arrives, or the ticker of the auditor fires.
GoTask(t) ==
    /\ task[t] = IdleTask
    /\ \E p \in ProgsOf(t) : task' = [task EXCEPT ![t] = [IdleTask EXCEPT !.prog = p]]
    /\ UNCHANGED mu

\* sync.RWMutex.Lock: waits until no goroutine holds the mutex.
Lock(t) ==
    /\ AtOp(t, "Lock")
    /\ LET m == task[t].prog[task[t].i].on
       IN  /\ mu[m] = FreeMutex
           /\ mu' = [mu EXCEPT ![m].w = t]
    /\ task' = Advance(t)

\* sync.RWMutex.Unlock
Unlock(t) ==
    /\ AtOp(t, "Unlock")
    /\ LET m == task[t].prog[task[t].i].on
       IN  mu' = [mu EXCEPT ![m].w = "none"]
    /\ task' = Advance(t)

\* sync.RWMutex.RLock: waits while a goroutine holds the mutex for writing.
RLock(t) ==
    /\ AtOp(t, "RLock")
    /\ LET m == task[t].prog[task[t].i].on
       IN  /\ mu[m].w = "none"
           /\ mu' = [mu EXCEPT ![m].r = @ \cup {t}]
    /\ task' = Advance(t)

\* sync.RWMutex.RUnlock
RUnlock(t) ==
    /\ AtOp(t, "RUnlock")
    /\ LET m == task[t].prog[task[t].i].on
       IN  mu' = [mu EXCEPT ![m].r = @ \ {t}]
    /\ task' = Advance(t)

\* The goroutine sends a request to upstream and waits for the answer.
CallUpstream(t) ==
    /\ AtOp(t, "Call")
    /\ ~task[t].inCall
    /\ task' = [task EXCEPT ![t].inCall = TRUE]
    /\ UNCHANGED mu

\* Upstream answers, or the call fails; a hung upstream never does.
UpstreamReturns(t) ==
    /\ AtOp(t, "Call")
    /\ task[t].inCall
    /\ task' = Advance(t)
    /\ UNCHANGED mu

LocksInit ==
    /\ recidivismBonus = 15
    /\ compiledScenarios = compilePatterns(<<"ssh-bf", "http-.*", ".*-bf">>)
    /\ maxDecisions = 1 /\ cacheTTL = 0
    /\ now = StartTime
    /\ ScorerIdle
    /\ HandlerInit
    /\ AuditorInit
    /\ workload = [clients |-> {}, paths |-> {}, methods |-> {}, cancels |-> FALSE,
                   checker |-> TRUE,
                   deltas |-> FALSE]
    /\ mainPc = "none"
    /\ call = NoCall
    /\ RecordsIdle
    /\ task = [t \in LockTasks |-> IdleTask]
    /\ mu = [m \in Mutexes |-> FreeMutex]

\* What a step of the lock discipline leaves alone.
restOfLocks ==
    <<now, configVars, scorerVars, handlerVars, workload, auditorVars, mainPc,
      call, recordVars>>

LocksNext ==
    \/ \E t \in LockTasks : GoTask(t) /\ UNCHANGED restOfLocks
    \/ \E t \in LockTasks : Lock(t) /\ UNCHANGED restOfLocks
    \/ \E t \in LockTasks : Unlock(t) /\ UNCHANGED restOfLocks
    \/ \E t \in LockTasks : RLock(t) /\ UNCHANGED restOfLocks
    \/ \E t \in LockTasks : RUnlock(t) /\ UNCHANGED restOfLocks
    \/ \E t \in LockTasks : CallUpstream(t) /\ UNCHANGED restOfLocks
    \/ \E t \in LockTasks : UpstreamReturns(t) /\ UNCHANGED restOfLocks

SpecLocks == LocksInit /\ [][LocksNext]_vars

\* ------------------------------------------------------------------------
\* Calls of the functions of config and of writeTopNMetric
\* ------------------------------------------------------------------------

\* The keys of scoring.scenarios in the order the configuration document
\* lists them.
ScenariosInDocument == <<"ssh-bf", "http-.*", ".*-bf", "default">>

\* The scenario names of the calls: an exact key, names that one pattern or
\* two patterns match, the key "default" itself, and a name nothing matches.
ScenarioNames == {"ssh-bf", "http-probing", "http-bf", "default", "manual"}

\* The largest count of one scenario in the maps handed to writeTopNMetric.
MaxCount == 3

\* The scenarios of the maps handed to writeTopNMetric.
MetricScenarios == {"ssh-bf", "http-probing", "http-sqli", "default"}

\* Stats.ScenarioKept and Stats.ScenarioDropped: a scenario is in the map
\* once it was counted, so every count is at least 1.
CountMaps ==
    UNION {[keys -> 1..MaxCount] : keys \in SUBSET MetricScenarios}

\* effectiveness.top_scenarios as configured.
TopScenariosValues == {-1, 0, 1, 2, 3}

\* The fallback of handleMetrics for a top_scenarios of zero or less.
DefaultTopScenarios == 20

\* topN of handleMetrics.
TopN(topScenarios) ==
    IF topScenarios <= 0 THEN DefaultTopScenarios ELSE topScenarios

\* sort.Slice over the kv pairs collected by ranging over the map: any
\* arrangement in which no pair has a larger value than one placed before it.
SortByCount(data) ==
    LET keys == DOMAIN data
        n == Cardinality(keys)
        orders == { f \in [1..n -> keys] : \A i, j \in 1..n : i # j => f[i] # f[j] }
        arrangements == { [i \in 1..n |-> [key |-> f[i], value |-> data[f[i]]]] :
                            f \in orders }
    IN  { p \in arrangements :
            \A i, j \in 1..n : i < j => ~(p[j].value > p[i].value) }

\* A faulty test: one entry more than n is written under its own label.
IsTopOneMore(i, n) == i - 1 <= n

\* `if i < n` of the emit loop, for the entry at position i (the first is 1,
\* Go's index 0).
IsTop(i, n) == i - 1 < n

\* The series lines writeTopNMetric writes for one sorted slice: the top n
\* entries under their own label, then scenario="other" when otherCount > 0.
EmitTopN(sorted, n) ==
    LET len == Len(sorted)
        top == SelectSeq([i \in 1..len |-> [at |-> i, kv |-> sorted[i]]],
                         LAMBDA e : IsTop(e.at, n))
        otherCount == SumSeq([i \in 1..len |->
                                IF IsTop(i, n) THEN 0 ELSE sorted[i].value])
    IN  [i \in 1..Len(top) |-> [scenario |-> top[i].kv.key, value |-> top[i].kv.value]]
        \o (IF otherCount > 0
            THEN << [scenario |-> "other", value |-> otherCount] >>
            ELSE << >>)

\* Handler.writeTopNMetric: the sets of series lines it may write after the
\* HELP and TYPE lines.
writeTopNMetric(data, n) ==
    IF DOMAIN data = {} THEN { << >> }
    ELSE { EmitTopN(sorted, n) : sorted \in SortByCount(data) }

\* A key of the configuration document: absent, or given with a value.
Absent == << >>
Given(v) == << v >>

\* The configuration documents handed to Load: whether the file can be read,
\* and what it gives for the keys Validate and compilePatterns look at.  A
\* cache_ttl of "soon" is not a duration; the scenario key "ssh-(bf" is not
\* a regular expression.
Documents ==
    [readable : BOOLEAN,
     listen_addr : {Absent, Given(""), Given("0.0.0.0:8081")},
     upstream_lapi_url : {Absent, Given(""), Given("http://lapi:8080")},
     upstream_lapi_key : {Absent, Given(""), Given("bouncer-key")},
     max_decisions : {Absent, Given(-1), Given(0), Given(1), Given(MaxCfgDecisions)},
     cache_ttl : {Absent, Given("-1s"), Given("0s"), Given("60s"), Given("soon")},
     scenarios : {{}, {"default"}, {"ssh-bf", "http-.*", "default"},
                  {"ssh-bf", "ssh-(bf"}}]

\* time.ParseDuration as yaml.v3 applies it to a time.Duration field, in
\* seconds; an empty sequence is its error.
ParseYAMLDuration(s) ==
    CASE s = "-1s" -> <<-1>>
      [] s = "0s"  -> <<0>>
      [] s = "60s" -> <<60>>
      [] OTHER     -> <<>>

\* regexp.Compile("^" + pattern + "$") succeeds on the keys the model uses
\* but on the one with the unclosed group.
RegexpCompiles(pattern) == pattern # "ssh-(bf"

\* The Config literal of Load before yaml.Unmarshal: the defaults.
DefaultConfig ==
    [ListenAddr |-> "127.0.0.1:8081", UpstreamLAPIURL |-> "",
     UpstreamLAPIKey |-> "", MaxDecisions |-> 15000, CacheTTL |-> 60,
     Scenarios |-> {}, compiledScenarios |-> <<>>]

\* yaml.Unmarshal(data, cfg): a key the document has replaces the default, a
\* key it does not have leaves it.  Called on documents whose cache_ttl
\* parses.
Unmarshal(doc) ==
    LET given(v, default) == IF v = Absent THEN default ELSE v[1]
    IN  [ListenAddr |-> given(doc.listen_addr, DefaultConfig.ListenAddr),
         UpstreamLAPIURL |-> given(doc.upstream_lapi_url, DefaultConfig.UpstreamLAPIURL),
         UpstreamLAPIKey |-> given(doc.upstream_lapi_key, DefaultConfig.UpstreamLAPIKey),
         MaxDecisions |-> given(doc.max_decisions, DefaultConfig.MaxDecisions),
         CacheTTL |-> IF doc.cache_ttl = Absent THEN DefaultConfig.CacheTTL
                      ELSE ParseYAMLDuration(doc.cache_ttl[1])[1],
         Scenarios |-> doc.scenarios,
         compiledScenarios |-> <<>>]

\* A faulty Validate: max_decisions of 0 is let through.
ValidateAllowsZero(c) ==
    IF c.ListenAddr = "" THEN "listen_addr is required"
    ELSE IF c.UpstreamLAPIURL = "" THEN "upstream_lapi_url is required"
    ELSE IF c.UpstreamLAPIKey = "" THEN "upstream_lapi_key is required"
    ELSE IF c.MaxDecisions < 0 THEN "max_decisions must be positive"
    ELSE IF c.CacheTTL < 0 THEN "cache_ttl cannot be negative"
    ELSE ""

\* Config.Validate: the error it returns, "" for nil.
Validate(c) ==
    IF c.ListenAddr = "" THEN "listen_addr is required"
    ELSE IF c.UpstreamLAPIURL = "" THEN "upstream_lapi_url is required"
    ELSE IF c.UpstreamLAPIKey = "" THEN "upstream_lapi_key is required"
    ELSE IF c.MaxDecisions <= 0 THEN "max_decisions must be positive"
    ELSE IF c.CacheTTL < 0 THEN "cache_ttl cannot be negative"
    ELSE ""

\* compilePatterns on the scenarios of a document: the orders in which the
\* range over the map may have appended the patterns, none when a key other
\* than "default" does not compile (the range reaches every key unless it
\* has returned the error before).
CompiledOrders(scenarios) ==
    LET keys == scenarios \ {"default"}
        n == Cardinality(keys)
    IN  IF \E k \in keys : ~RegexpCompiles(k) THEN {}
        ELSE { s \in [1..n -> keys] : \A i, j \in 1..n : i # j => s[i] # s[j] }

\* What Load returns without a configuration.
LoadError(reason) == [cfg |-> <<>>, err |-> reason]

\* config.Load: the set of (cfg, err) it may return; cfg is <<>> for nil and
\* err is "" for nil.
Load(doc) ==
    IF ~doc.readable THEN { LoadError("reading config file") }
    ELSE IF doc.cache_ttl # Absent /\ ParseYAMLDuration(doc.cache_ttl[1]) = <<>>
    THEN { LoadError("parsing config file") }
    ELSE LET c == Unmarshal(doc)
         IN  IF Validate(c) # "" THEN { LoadError("validating config") }
             ELSE IF CompiledOrders(c.Scenarios) = {}
             THEN { LoadError("compiling scenario patterns") }
             ELSE { [cfg |-> << [c EXCEPT !.compiledScenarios = order] >>,
                     err |-> ""] : order \in CompiledOrders(c.Scenarios) }

\* scoring.cidr_bonuses of the calls: the defaults of Load, a list that
\* rewards single addresses, a list whose ranges overlap, and none.
CIDRBonusLists ==
    { CIDRBonuses,
      << [MinPrefix |-> 0, MaxPrefix |-> 16, Bonus |-> 20],
         [MinPrefix |-> 17, MaxPrefix |-> 32, Bonus |-> 7] >>,
      << [MinPrefix |-> 24, MaxPrefix |-> 32, Bonus |-> 5],
         [MinPrefix |-> 0, MaxPrefix |-> 32, Bonus |-> 9] >>,
      << >> }

\* The scope and value of the decisions of the calls.
CIDRScopes == {"ip", "Ip", "", "range", "Country"}
CIDRValues == {"1.2.3.4", "10.0.0.0/16", "10.9.0.0/24", "10.1.0.0/33"}

\* A configuration was loaded (compilePatterns has put the patterns in the
\* order its range over the map took), and nothing has been called.
CallsInit ==
    /\ recidivismBonus = 15
    /\ compiledScenarios \in {compilePatterns(o) : o \in PatternOrders}
    /\ maxDecisions = 1 /\ cacheTTL = 0
    /\ now = StartTime
    /\ ScorerIdle
    /\ HandlerInit
    /\ AuditorInit
    /\ workload = [clients |-> {}, paths |-> {}, methods |-> {}, cancels |-> FALSE,
                   checker |-> FALSE,
                   deltas |-> FALSE]
    /\ mainPc = "none"
    /\ task = <<>>
    /\ mu = <<>>
    /\ call = NoCall
    /\ RecordsIdle

\* s.GetScenarioScore(scenario) on the loaded configuration.
CallGetScenarioScore ==
    /\ call = NoCall
    /\ \E scenario \in ScenarioNames :
        call' = [fn |-> "GetScenarioScore", scenario |-> scenario,
                 out |-> GetScenarioScore(scenario)]

\* What a call leaves alone.
restOfCalls ==
    <<now, configVars, scorerVars, handlerVars, workload, auditorVars, mainPc,
      task, mu, recordVars>>

\* handleMetrics writing one of the per-scenario maps of the cached stats
\* under the configured top_scenarios.
CallWriteTopNMetric ==
    /\ call = NoCall
    /\ \E data \in CountMaps, topScenarios \in TopScenariosValues :
        \E out \in writeTopNMetric(data, TopN(topScenarios)) :
            call' = [fn |-> "writeTopNMetric", data |-> data,
                     topScenarios |-> topScenarios, out |-> out]

\* config.Load(path) on one of the documents.
CallLoad ==
    /\ call = NoCall
    /\ \E doc \in Documents :
        \E out \in Load(doc) :
            call' = [fn |-> "Load", doc |-> doc, out |-> out]

\* The CIDR step of s.Score(d) for a decision of the given scope and value.
CallCIDRBonus ==
    /\ call = NoCall
    /\ \E ranges \in CIDRBonusLists, scope \in CIDRScopes, value \in CIDRValues :
          call' = [fn |-> "CIDRBonus", ranges |-> ranges, scope |-> scope,
                   value |-> value,
                   out |-> CIDRBonusOf(ranges, [Scope |-> scope, Value |-> value])]

CallsNext ==
    \/ CallGetScenarioScore /\ UNCHANGED restOfCalls
    \/ CallCIDRBonus /\ UNCHANGED restOfCalls
    \/ CallLoad /\ UNCHANGED restOfCalls
    \/ CallWriteTopNMetric /\ UNCHANGED restOfCalls

SpecCalls == CallsInit /\ [][CallsNext]_vars

\* ------------------------------------------------------------------------
\* Properties of the scorer
\* ------------------------------------------------------------------------

\* a is ranked before b: higher score first, then lower id.
RankedBefore(a, b) ==
    a.Score > b.Score \/ (a.Score = b.Score /\ a.ID < b.ID)

UniqueIDs(ds) == \A i, j \in 1..Len(ds) : i # j => ds[i].ID # ds[j].ID

\* q is an arrangement of the elements of p.
SameElements(p, q) ==
    /\ Len(p) = Len(q)
    /\ \A x \in {p[i] : i \in 1..Len(p)} \cup {q[i] : i \in 1..Len(q)} :
          Cardinality({i \in 1..Len(p) : p[i] = x})
          = Cardinality({i \in 1..Len(q) : q[i] = x})

\* C2: ScoreAndTruncateWithStats returns the first min(max_n, |input|)
\* elements of the input in sorted order (nothing left out ranks before a
\* returned element), and its Stats have total = |input|, returned = |output|
\* and dropped + returned = total.
C2_TruncateWithStats ==
    sPhase = "stats" =>
        LET k == Min(sMax, Len(sIn))
            scored == ScoreAll(sIn, now)
            copies(q, x) == Cardinality({i \in 1..Len(q) : q[i] = x})
        IN  /\ Len(sOut) = k
            /\ \A j \in 1..k : copies(sOut, sOut[j]) <= copies(scored, sOut[j])
            /\ \A h \in 1..Len(scored) :
                  copies(sOut, scored[h]) < copies(scored, scored[h])
                  => \A j \in 1..k : ~RankedBefore(scored[h], sOut[j])
            /\ \A j \in 1..(k - 1) : ~RankedBefore(sOut[j + 1], sOut[j])
            /\ sStats.TotalDecisions = Len(sIn)
            /\ sStats.ReturnedDecisions = Len(sOut)
            /\ sStats.DroppedDecisions + sStats.ReturnedDecisions
               = sStats.TotalDecisions

\* A call that had to truncate to a positive max_n.
C2_Witness ==
    sPhase = "stats" /\ sMax > 0 /\ Len(sIn) > sMax /\ Len(sOut) = sMax

\* C3: given unique ids, ScoreAndSort returns a permutation of its input in
\* which every adjacent pair (a, b) has score(a) > score(b), or equal scores
\* and id(a) < id(b).
C3_SortedByScoreThenID ==
    (sPhase = "sorted" /\ UniqueIDs(sIn)) =>
        /\ SameElements(EncodeAll(sOut), EncodeAll(sIn))
        /\ \A i \in 1..(Len(sOut) - 1) :
              \/ sOut[i].Score > sOut[i + 1].Score
              \/ sOut[i].Score = sOut[i + 1].Score /\ sOut[i].ID < sOut[i + 1].ID

\* A sorted output in which two decisions tie on the score.
C3_Witness ==
    /\ sPhase = "sorted" /\ UniqueIDs(sIn)
    /\ \E i \in 1..(Len(sOut) - 1) : sOut[i].Score = sOut[i + 1].Score

SixFactors(d, clock) ==
    ScenarioFactor(d) + GetOriginScore(d.Origin) + TTLFactor(d)
    + GetDecisionTypeScore(d.Type) + FreshnessFactor(d, clock) + CIDRFactor(d)

\* C8 as stated: the score of every decision is the sum of the six
\* per-decision factors and recidivism_bonus x (count - 1), for every
\* configuration.
C8_AsStated ==
    sPhase = "sorted" =>
        \A i \in 1..Len(sOut) :
            sOut[i].Score = SixFactors(sOut[i], now)
                + recidivismBonus * (IPCount(sIn, sOut[i].Value) - 1)

\* C8 amended: the score of every decision is the sum of the six per-decision
\* factors and a recidivism term that is recidivism_bonus x (count - 1) when
\* recidivism_bonus > 0 and 0 otherwise.
C8_ScoreIsSumOfFactors ==
    sPhase = "sorted" =>
        \A i \in 1..Len(sOut) :
            sOut[i].Score = SixFactors(sOut[i], now)
                + (IF recidivismBonus > 0
                   THEN recidivismBonus * (IPCount(sIn, sOut[i].Value) - 1)
                   ELSE 0)

\* A scoring pass with a positive bonus over an input with a repeated value.
C8_Witness ==
    /\ sPhase = "sorted" /\ recidivismBonus > 0
    /\ \E i \in 1..Len(sOut) : IPCount(sIn, sOut[i].Value) >= 2

\* C9 as stated: ScoreAndTruncate applied to its own result, with m at least
\* the length of that result, returns the same decisions in the same order
\* (stated here for the inputs whose ids are unique, as the data model has
\* them).
C9_AsStated ==
    (sPhase = "twice" /\ UniqueIDs(sIn)) => EncodeAll(sAgain) = EncodeAll(sOut)

\* No value of the input is shared by a kept and a dropped decision.
NoGroupSplit ==
    \A i \in 1..Len(sOut) :
        IPCount(sOut, sOut[i].Value) = IPCount(sIn, sOut[i].Value)

\* C9 amended: ScoreAndTruncate applied to its own result returns the same
\* decisions in the same order when the ids of the input are unique and the
\* first call did not separate decisions that share a value (or the
\* recidivism bonus is not positive).
C9_IdempotentWhenGroupsIntact ==
    (sPhase = "twice" /\ UniqueIDs(sIn) /\ (recidivismBonus <= 0 \/ NoGroupSplit))
        => EncodeAll(sAgain) = EncodeAll(sOut)

\* A second call on a truncated result that kept a whole group of two.
C9_Witness ==
    /\ sPhase = "twice" /\ UniqueIDs(sIn) /\ recidivismBonus > 0 /\ NoGroupSplit
    /\ Len(sOut) < Len(sIn)
    /\ \E i \in 1..Len(sOut) : IPCount(sOut, sOut[i].Value) = 2

\* ------------------------------------------------------------------------
\* Properties of the handler
\* ------------------------------------------------------------------------

\* The request of client c has been answered 200 on GET /v1/decisions.
Answered(c) ==
    /\ req[c].pc = "done"
    /\ req[c].path = "/v1/decisions"
    /\ req[c].resp.status = 200

\* The request of client c has been answered 200 on GET /v1/decisions/stream.
StreamAnswered(c) ==
    /\ req[c].pc = "done"
    /\ req[c].path = "/v1/decisions/stream"
    /\ req[c].resp.status = 200

\* C1: every successful response to GET /v1/decisions carries at most
\* max_decisions decisions, from the cache or from a fresh fetch, and the
\* cache slot never holds more than max_decisions decisions.
C1_AtMostMaxDecisions ==
    /\ Len(cache.elems) <= maxDecisions
    /\ \A c \in Clients :
          Answered(c) => Len(req[c].resp.items) <= maxDecisions

\* A response served from a cache slot that was filled by a truncating pass.
C1_Witness ==
    \E c \in Clients :
        /\ Answered(c) /\ req[c].fromCache
        /\ Len(req[c].resp.items) = maxDecisions
        /\ Len(cache.elems) = maxDecisions
        /\ cacheStats.DroppedDecisions > 0

\* C4: the deleted sequence of every successful stream response is the
\* deleted sequence upstream returned, element for element and in order,
\* whatever max_decisions is and whatever happened to new.
C4_DeletedPassThrough ==
    \A c \in Clients :
        StreamAnswered(c) => req[c].resp.deleted = req[c].upstream.deleted

\* A stream response whose new was truncated to max_decisions while upstream
\* sent more deleted decisions than that.
C4_Witness ==
    \E c \in Clients :
        /\ StreamAnswered(c)
        /\ Len(req[c].resp.deleted) > maxDecisions
        /\ Len(req[c].resp.items) = maxDecisions
        /\ cacheStats.DroppedDecisions > 0

\* C5 as stated: a GET /v1/decisions request is answered from the cache slot
\* without an upstream call if and only if a slot had been stored and
\* now - stored_at < cache_ttl when the request read the slot; with
\* cache_ttl = 0 no request is served from the cache.
C5_AsStated ==
    \A c \in Clients :
        (req[c].path = "/v1/decisions" /\ req[c].method = "GET"
         /\ req[c].pc \notin {"idle", "lookup"})
        => /\ req[c].fromCache <=> (req[c].slotStored /\ req[c].slotFresh)
           /\ cacheTTL = 0 => ~req[c].fromCache

\* C6: when the upstream call of a GET /v1/decisions request fails (transport
\* error, a status that is not 2xx, or a malformed body) the request is
\* answered 502, failed_requests grows by one, and the cached decisions,
\* stored_at, cache_stats, hits, misses and dropped_ips are unchanged; the
\* request retains no decisions.
C6_FailureLeavesCacheAlone ==
    [][ /\ \A reply \in DecisionReplies :
              (\/ reply.kind = "error"
               \/ reply.status \notin 200..299
               \/ reply.json = "malformed") => GetDecisions(reply).err
        /\ \A c \in Clients :
              (req[c].pc = "fetch" /\ req'[c].upstream.json = "failed")
              => /\ req'[c].pc = "done"
                 /\ req'[c].resp.status = 502
                 /\ req'[c].resp.items = <<>>
                 /\ req'[c].decisions = NilSlice
                 /\ failedRequests' = failedRequests + 1
                 /\ UNCHANGED <<cache, cacheTime, cacheStats, cacheHits,
                                cacheMisses, droppedIPs>> ]_vars

\* A request answered 502 while the slot holds decisions stored earlier.
C6_Witness ==
    \E c \in Clients :
        /\ req[c].pc = "done" /\ req[c].path = "/v1/decisions"
        /\ req[c].resp.status = 502 /\ req[c].upstream.json = "failed"
        /\ failedRequests >= 1
        /\ Len(cache.elems) > 0 /\ cacheMisses = 1

\* C7: a 200 answer to GET /v1/decisions whose result is empty has the body
\* null exactly: never an empty array and never any other rendering of a
\* nil slice, on a fresh fetch (upstream null included) and from the cache.
C7_EmptyIsNull ==
    \A c \in Clients :
        Answered(c)
        => /\ \/ req[c].resp.json = "null"
              \/ req[c].resp.json = "array" /\ Len(req[c].resp.items) > 0
           /\ req[c].upstream.json \in {"null", "null-padded"}
              => req[c].resp.json = "null"

\* An empty result served from the cache, stored from the body "[]" or null.
C7_Witness ==
    \E c \in Clients :
        /\ Answered(c) /\ req[c].fromCache
        /\ req[c].resp.json = "null"
        /\ ~cache.isNil /\ Len(cache.elems) = 0

\* Every request made so far is the /v1/decisions request a client holds now.
OnlyDecisionsRequests ==
    totalRequests = Cardinality({c \in Clients : req[c].path = "/v1/decisions"})

\* C10 as stated: with a positive cache_ttl, no stream request and the clock
\* not having moved since the first request, any two successful responses to
\* GET /v1/decisions have the same body, however the requests interleave.
C10_AsStated ==
    (cacheTTL > 0 /\ now = StartTime /\ OnlyDecisionsRequests)
    => \A c1, c2 \in Clients :
          (Answered(c1) /\ Answered(c2)) => req[c1].resp = req[c2].resp

\* C10 amended: two successful responses to GET /v1/decisions that come from
\* the same stored slot (the one a miss stored, or the one a hit read) have
\* the same body, however the requests interleave.
C10_SameSlotSameBody ==
    \A c1, c2 \in Clients :
        (Answered(c1) /\ Answered(c2) /\ req[c1].slot = req[c2].slot)
        => req[c1].resp = req[c2].resp

\* A miss and a hit on the slot that miss stored, both answered with
\* decisions.
C10_Witness ==
    \E c1, c2 \in Clients :
        /\ Answered(c1) /\ Answered(c2)
        /\ ~req[c1].fromCache /\ req[c2].fromCache
        /\ req[c1].slot = req[c2].slot
        /\ Len(req[c2].resp.items) > 1

\* Every request made so far is a GET /v1/decisions request that a client
\* holds now and that has been answered.
OnlyCompletedDecisionsGets ==
    /\ OnlyDecisionsRequests
    /\ \A c \in Clients :
          req[c].path = "/v1/decisions"
          => req[c].method = "GET" /\ req[c].pc = "done"

\* C11 as stated: every GET /v1/decisions request increments exactly one of
\* hits and misses, so once the requests made are all completed
\* GET /v1/decisions requests, hits + misses is their number.
C11_AsStated ==
    OnlyCompletedDecisionsGets => cacheHits + cacheMisses = totalRequests

\* ------------------------------------------------------------------------
\* Properties of the routes and of failures
\* ------------------------------------------------------------------------

\* This step ends the upstream call of client c's decisions or stream
\* request because the request was cancelled or the upstream timeout expired.
CallCancelled(c) ==
    /\ req[c].pc \in {"fetch", "stream"}
    /\ req'[c].pc = "done"
    /\ req'[c].upstream.json = "cancelled"

\* C12 as stated: when the client cancels or the upstream call times out
\* during GET /v1/decisions or GET /v1/decisions/stream, the cache slot,
\* cache_stats, dropped_ips, hits, misses and failed_requests all keep their
\* previous values.
C12_AsStated ==
    [][\A c \in Clients :
          CallCancelled(c)
          => UNCHANGED <<cache, cacheTime, cacheStats, droppedIPs, cacheHits,
                         cacheMisses, failedRequests>>]_vars

\* This step ends client c's request because its upstream call failed (the
\* request itself was not cancelled).
UpstreamUnavailable(c) ==
    /\ req[c].pc \in {"fetch", "stream", "proxy"}
    /\ req'[c].pc = "done"
    /\ req'[c].upstream.json = "failed"

\* C13 as stated: every request that fails because upstream is unavailable is
\* answered 502 and increments failed_requests exactly once, whichever route it
\* took: GET /v1/decisions, GET /v1/decisions/stream or the passthrough.
C13_AsStated ==
    [][\A c \in Clients :
          UpstreamUnavailable(c)
          => /\ req'[c].resp.status = 502
             /\ failedRequests' = failedRequests + 1]_vars

\* This step is one of client c's GET /v1/decisions/stream request: its
\* arrival, the answer of upstream, or one of the two writes that follow.
StreamStep(c) ==
    /\ req'[c] # req[c]
    /\ req'[c].path = "/v1/decisions/stream"
    /\ req'[c].method = "GET"

\* C14: GET /v1/decisions/stream is never cached.  No step of a stream request
\* changes the cached decisions, stored_at, hits or misses, and a stream
\* request is answered only after an upstream call of its own, valid cache
\* slot or not.
C14_StreamNeverCached ==
    [][\A c \in Clients :
          StreamStep(c)
          => /\ UNCHANGED <<cache, cacheTime, cacheHits, cacheMisses>>
             /\ req'[c].pc = "done" => req'[c].upstream.json # ""]_vars

\* A stream request answered with decisions while the slot that an earlier
\* miss stored is still valid.
C14_Witness ==
    /\ ~cache.isNil /\ now - cacheTime < cacheTTL
    /\ cacheMisses = 1 /\ cacheHits = 0
    /\ \E c \in Clients : StreamAnswered(c) /\ Len(req[c].resp.items) > 0

\* This step completes client c's GET /v1/decisions/stream request with 200.
StreamCompletes(c) ==
    /\ StreamStep(c)
    /\ req'[c].pc = "done"
    /\ req'[c].resp.status = 200

\* The scoring passes over the `new` of a stream object upstream can answer
\* with, at a time up to now, that end in the body resp: the Stats of each.
PassesBehind(resp) ==
    UNION { UNION { { r.stats :
                        r \in { p \in ScoreAndTruncateWithStats(
                                         GetDecisionsStream(reply).New,
                                         maxDecisions, t) :
                                  resp = WriteStream(p.result,
                                             GetDecisionsStream(reply).Deleted) } } :
                    t \in StartTime..now } :
            reply \in { s \in StreamReplies : ~GetDecisionsStream(s).err } }

Forwarded(c) ==
    /\ req[c].fwd.method = req[c].method
    /\ req[c].fwd.url = UpstreamLAPIURL \o req[c].path
    /\ req[c].fwd.body = (IF req[c].method = "POST" THEN "payload" ELSE "")
    /\ req[c].fwd.headers =
          {<<"User-Agent", "bouncer">>, <<"X-Api-Key", "bouncer-key">>,
           <<"X-Api-Key", UpstreamLAPIKey>>}
    /\ IF req[c].upstream.json \in {"failed", "cancelled"}
       THEN req[c].resp.status = 502
       ELSE /\ req[c].resp.json = req[c].upstream.json
            /\ \E reply \in PassReplies :
                  /\ reply.kind = "http"
                  /\ reply.status = req[c].resp.status
                  /\ reply.json = req[c].resp.json

\* C16 as stated: any request that is not a GET on one of the four routed
\* paths is forwarded to upstream and answered with upstream's status and
\* body, non-GET methods on the four routed paths included.
C16_AsStated ==
    \A c \in Clients :
        (req[c].pc = "done"
         /\ ~(req[c].method = "GET" /\ req[c].path \in RoutedPaths))
        => Forwarded(c)

\* C16 amended: the route is chosen by the path alone.  A request for a path
\* that is not routed is forwarded whatever its method; a non-GET request for
\* /v1/decisions or /v1/decisions/stream is answered 405 and not forwarded;
\* the health and metrics paths are answered by the handler itself whatever
\* the method.
C16_PassthroughByPathOnly ==
    \A c \in Clients :
        req[c].pc = "done"
        => CASE req[c].path \notin RoutedPaths -> Forwarded(c)
             [] req[c].path \in {"/v1/decisions", "/v1/decisions/stream"}
                /\ req[c].method # "GET" ->
                    req[c].resp.status = 405 /\ req[c].fwd = NoForward
             [] req[c].path = HealthPath ->
                    /\ req[c].fwd = NoForward
                    /\ req[c].resp.json \in {"healthy", "degraded"}
             [] req[c].path = MetricsPath ->
                    /\ req[c].fwd = NoForward
                    /\ req[c].resp.json = "metrics"
             [] OTHER -> req[c].fwd = NoForward

\* A POST for a path that is not routed, forwarded with its body and answered
\* with upstream's 404.
C16_Witness ==
    \E c \in Clients :
        /\ req[c].pc = "done"
        /\ req[c].path = "/v1/alerts" /\ req[c].method = "POST"
        /\ req[c].fwd.body = "payload"
        /\ req[c].resp.status = 404

\* ------------------------------------------------------------------------
\* Properties of the false-negative auditor
\* ------------------------------------------------------------------------

\* The source IP of an alert: source.value, or source.ip when value is empty.
SourceIP(alert) ==
    IF alert.Source.Value # "" THEN alert.Source.Value ELSE alert.Source.IP

\* This step ends a check whose alert fetch succeeded.
CheckSucceeds == aud.pc = "count" /\ aud'.pc = "wait"

\* C17: a check with a non-empty snapshot of dropped_ips and a successful
\* alert fetch adds to false_negatives_total exactly the number of returned
\* alerts whose source IP is in the snapshot (alerts without a source IP add
\* nothing), and leaves last_check nonzero.
C17_CountsAlertsFromDroppedIPs ==
    [][CheckSucceeds
       => /\ aud.dropped # {}
          /\ falseNegativesTotal' = falseNegativesTotal
                + Cardinality({ i \in 1..Len(aud.alerts) :
                                  /\ SourceIP(aud.alerts[i]) # ""
                                  /\ SourceIP(aud.alerts[i]) \in aud.dropped })
          /\ falseNegativeLastCheck' # 0]_vars

\* The first check found two alerts from dropped IPs among three.
C17_Witness ==
    /\ aud.ticks = 1 /\ aud.pc = "wait" /\ aud.outcome = "checked"
    /\ falseNegativesTotal = 2
    /\ falseNegativeLastCheck # 0

\* This step is a tick of the auditor that finds dropped_ips empty.
TickOnEmpty ==
    /\ aud.pc = "wait"
    /\ aud'.ticks = aud.ticks + 1
    /\ droppedIPs = {}

\* C18: a check that finds dropped_ips empty (never set included) makes no
\* get_alerts call, leaves false_negatives_total unchanged and sets
\* last_check to the current time.
C18_EmptySnapshotSkipsFetch ==
    [][TickOnEmpty
       => /\ aud'.pc = "wait"
          /\ falseNegativesTotal' = falseNegativesTotal
          /\ falseNegativeLastCheck' = now]_vars

\* A check on an empty dropped_ips that took place after the clock had moved.
C18_Witness ==
    /\ aud.pc = "wait" /\ aud.outcome = "empty"
    /\ droppedIPs = {}
    /\ falseNegativeLastCheck = StartTime + 1

\* This step ends the check of a tick: on an empty snapshot, on a failed
\* alert fetch, or after the alerts were counted.
CheckEnds ==
    /\ aud'.pc = "wait"
    /\ \/ aud.pc = "wait" /\ aud'.ticks = aud.ticks + 1
       \/ aud.pc \in {"fetch", "count"}

\* C19 as stated: last_check is updated on every tick whatever its outcome
\* (empty snapshot, successful or failed alert fetch): when the check of a
\* tick ends, last_check holds the current time.
C19_AsStated ==
    [][CheckEnds => falseNegativeLastCheck' = now]_vars

\* This step ends a check because its alert fetch failed.
FetchFails ==
    /\ aud.pc = "fetch"
    /\ aud'.pc \notin {"fetch", "count"}

\* C20: a failed alert fetch leaves false_negatives_total and dropped_ips
\* untouched and does not end the auditor: it is back waiting for its ticker,
\* and while ticks remain the next one starts a new check.
C20_FailedFetchKeepsAuditor ==
    /\ [][FetchFails
          => /\ UNCHANGED <<falseNegativesTotal, droppedIPs>>
             /\ aud'.pc = "wait"]_vars
    /\ []((aud.pc = "wait" /\ aud.outcome = "failed" /\ aud.ticks < MaxChecks)
          => ENABLED falseNegativeChecker)

\* A second check under way after the first one failed on its alert fetch.
C20_Witness ==
    /\ aud.pc = "fetch" /\ aud.outcome = "failed"
    /\ aud.ticks = 2
    /\ ~aud.cancelled
    /\ falseNegativesTotal = 0

\* C21: a call of StopBackgroundChecks always returns, and when it has
\* returned no auditor goroutine is left, whether the call found the auditor
\* waiting for its ticker or in the middle of a check; when the checker is
\* disabled or was never started the call can return at once.
C21_StopReturnsAfterAuditorEnded ==
    /\ (aud.stop = "called") ~> (aud.stop = "returned")
    /\ [](aud.stop = "returned" => aud.pc \in {"off", "disabled", "stopped"})
    /\ []((aud.stop = "called" /\ aud.pc \in {"off", "disabled"})
          => ENABLED StopBackgroundChecksReturns)

\* StopBackgroundChecks has returned after a call that came in the middle of
\* an alert fetch, which the cancellation made fail.
C21_Witness ==
    /\ aud.stop = "returned"
    /\ aud.pc = "stopped"
    /\ aud.outcome = "failed"
    /\ aud.ticks = 1
    /\ falseNegativeLastCheck = 0

\* ------------------------------------------------------------------------
\* Properties of the lock discipline
\* ------------------------------------------------------------------------

\* The mutexes goroutine t holds, for writing or for reading.
HeldBy(t) == {m \in Mutexes : mu[m].w = t \/ t \in mu[m].r}

\* Goroutine t waits for a mutex that goroutine u holds.
WaitsFor(t, u) ==
    /\ t # u
    /\ \/ AtOp(t, "Lock") /\ task[t].prog[task[t].i].on \in HeldBy(u)
       \/ AtOp(t, "RLock") /\ mu[task[t].prog[task[t].i].on].w = u

\* C22: no goroutine holds cacheMu, metricsMu or droppedIPsMu while it has an
\* upstream call in flight, so no request and no check of the auditor waits
\* for a lock behind a slow or hung upstream.
C22_NoLockAcrossUpstreamCall ==
    \A t \in LockTasks :
        task[t].inCall
        => /\ HeldBy(t) = {}
           /\ \A u \in LockTasks : ~WaitsFor(u, t)

\* Both requests and the auditor have a call in flight at once, and the locks
\* are all free.
C22_Witness ==
    /\ \A t \in LockTasks : task[t].inCall
    /\ \A m \in Mutexes : mu[m] = FreeMutex
    /\ task["r1"].prog[task["r1"].i].on = "GetDecisions"
    /\ task["r2"].prog[task["r2"].i].on = "Do"

\* ------------------------------------------------------------------------
\* Properties of the configuration and of the metrics
\* ------------------------------------------------------------------------

\* The score the stated order gives a scenario: the value of its own key,
\* else the score of the first key of the document, other than "default",
\* that matches the whole name, else the value of "default", else 0.
RECURSIVE FirstInDocument(_, _)
FirstInDocument(keys, scenario) ==
    IF keys = <<>> THEN <<>>
    ELSE IF Head(keys) # "default" /\ MatchString(Head(keys), scenario)
         THEN <<Scenarios[Head(keys)]>>
    ELSE FirstInDocument(Tail(keys), scenario)

ResolvedAsStated(scenario) ==
    IF scenario \in DOMAIN Scenarios THEN Scenarios[scenario]
    ELSE IF FirstInDocument(ScenariosInDocument, scenario) # <<>>
         THEN FirstInDocument(ScenariosInDocument, scenario)[1]
    ELSE IF "default" \in DOMAIN Scenarios THEN Scenarios["default"]
    ELSE 0

\* C23 as stated: GetScenarioScore gives the value of an exact key, else the
\* score of the first matching pattern in the insertion order of the
\* configuration, else the default, else 0, the same on every load.
C23_AsStated ==
    call.fn = "GetScenarioScore" => call.out = ResolvedAsStated(call.scenario)

\* ------------------------------------------------------------------------
\* Properties of the Stats
\* ------------------------------------------------------------------------

\* The sum of the values of a map[string]int.
RECURSIVE SumOfValues(_)
SumOfValues(m) ==
    IF DOMAIN m = {} THEN 0
    ELSE LET k == CHOOSE x \in DOMAIN m : TRUE
         IN  m[k] + SumOfValues([x \in DOMAIN m \ {k} |-> m[x]])

\* How many decisions of a slice have origin o, and scenario s.
WithOrigin(q, o) == Cardinality({i \in 1..Len(q) : q[i].Origin = o})
WithScenario(q, s) == Cardinality({i \in 1..Len(q) : q[i].Scenario = s})

\* C24: the per-origin and per-scenario tallies of a scoring pass partition
\* the input at the truncation boundary.  The values of origin_kept and of
\* scenario_kept sum to returned, those of origin_dropped and of
\* scenario_dropped sum to dropped, and for each origin and each scenario the
\* kept tally counts the output and kept + dropped counts the input.
C24_TalliesPartitionInput ==
    sPhase = "stats" =>
        LET tally(m, k) == IF k \in DOMAIN m THEN m[k] ELSE 0
        IN  /\ SumOfValues(sStats.OriginKept) = sStats.ReturnedDecisions
            /\ SumOfValues(sStats.ScenarioKept) = sStats.ReturnedDecisions
            /\ SumOfValues(sStats.OriginDropped) = sStats.DroppedDecisions
            /\ SumOfValues(sStats.ScenarioDropped) = sStats.DroppedDecisions
            /\ \A i \in 1..Len(sIn) :
                  LET o == sIn[i].Origin
                      s == sIn[i].Scenario
                  IN  /\ tally(sStats.OriginKept, o) = WithOrigin(sOut, o)
                      /\ tally(sStats.OriginKept, o)
                            + tally(sStats.OriginDropped, o) = WithOrigin(sIn, o)
                      /\ tally(sStats.ScenarioKept, s) = WithScenario(sOut, s)
                      /\ tally(sStats.ScenarioKept, s)
                            + tally(sStats.ScenarioDropped, s)
                         = WithScenario(sIn, s)

\* A pass that kept decisions of two origins and dropped one.
C24_Witness ==
    /\ sPhase = "stats"
    /\ sStats.ReturnedDecisions = 2 /\ sStats.DroppedDecisions = 1
    /\ Cardinality(DOMAIN sStats.OriginKept) = 2
    /\ DOMAIN sStats.OriginDropped # {}

\* C25: a pass whose input is no longer than max_decisions drops nothing.
\* The output is the scored input, dropped is 0, dropped_ips is empty,
\* origin_dropped and scenario_dropped have no entries, and score_cutoff is
\* the lowest score of the input; an empty input gives an empty output and
\* the zero Stats.
C25_NothingDroppedWithinLimit ==
    (sPhase = "stats" /\ Len(sIn) <= sMax) =>
        LET scored == ScoreAll(sIn, now)
        IN  /\ SameElements(scored, sOut)
            /\ sStats.DroppedDecisions = 0
            /\ sStats.DroppedIPs = {}
            /\ DOMAIN sStats.OriginDropped = {}
            /\ DOMAIN sStats.ScenarioDropped = {}
            /\ IF sIn = <<>>
               THEN sOut = <<>> /\ sStats = EmptyStats
               ELSE /\ \E i \in 1..Len(scored) :
                          sStats.ScoreCutoff = scored[i].Score
                    /\ \A i \in 1..Len(scored) :
                          sStats.ScoreCutoff <= scored[i].Score

\* A pass over exactly max_decisions decisions with different scores.
C25_Witness ==
    /\ sPhase = "stats"
    /\ Len(sIn) = sMax /\ sMax = 3
    /\ sStats.MinScore < sStats.MaxScore
    /\ sStats.ScoreCutoff = sStats.MinScore

\* The values that occur in at least two decisions of the input.
RepeatedValues(decisions) ==
    {decisions[i].Value : i \in {k \in 1..Len(decisions) :
        \E j \in 1..Len(decisions) :
            j # k /\ decisions[j].Value = decisions[k].Value}}

\* The recidivism bonus each decision of the input received: its score
\* after the scoring loop less its score from the six other factors.
BonusReceived(decisions, clock) ==
    SumSeq([i \in 1..Len(decisions) |->
              ScoreAll(decisions, clock)[i].Score - Score(decisions[i], clock)])

\* C26 as stated: under every configuration recidivism_ips is the number of
\* distinct values with at least two decisions and recidivism_boosts is the
\* sum of the bonuses the decisions received.
C26_AsStated ==
    sPhase = "stats" =>
        /\ sStats.RecidivismIPs = Cardinality(RepeatedValues(sIn))
        /\ sStats.RecidivismBoosts = BonusReceived(sIn, now)

\* C26: with a positive recidivism_bonus, recidivism_ips is the number of
\* distinct values that occur in at least two decisions of the input and
\* recidivism_boosts is the sum of the bonuses the decisions received,
\* recidivism_bonus x (count - 1) x count per group; with a recidivism_bonus
\* of zero or less both are 0, whatever the input repeats.
C26_RecidivismCountedOnlyWithPositiveBonus ==
    sPhase = "stats" =>
        IF recidivismBonus > 0
        THEN /\ sStats.RecidivismIPs = Cardinality(RepeatedValues(sIn))
             /\ sStats.RecidivismBoosts = BonusReceived(sIn, now)
        ELSE /\ sStats.RecidivismIPs = 0
             /\ sStats.RecidivismBoosts = 0
             /\ BonusReceived(sIn, now) = 0

\* A pass with a positive bonus over an input in which one value occurs
\* twice: one recidivist, and the bonus counted once for each of the two.
C26_Witness ==
    /\ sPhase = "stats"
    /\ recidivismBonus > 0
    /\ Len(sIn) >= 2
    /\ sStats.RecidivismIPs = 1
    /\ sStats.RecidivismBoosts = recidivismBonus * 2

\* stats.ScoreBuckets[t]: a threshold that was never incremented is absent
\* from the map and reads as 0.
BucketCount(stats, t) ==
    IF t \in DOMAIN stats.ScoreBuckets THEN stats.ScoreBuckets[t] ELSE 0

\* C27: score_buckets is cumulative over 25, 50, 75, 100, 150, 200.  The
\* bucket of T counts exactly the input decisions with score <= T, the
\* counts do not decrease as T grows, the bucket of 200 is total when no
\* score is above 200, and min_score <= median_score <= max_score.
C27_BucketsCumulativeAndMedianBetween ==
    sPhase = "stats" =>
        LET scored == ScoreAll(sIn, now)
            T == ScoreBucketThresholds
        IN  /\ T = <<25, 50, 75, 100, 150, 200>>
            /\ DOMAIN sStats.ScoreBuckets \subseteq {T[k] : k \in 1..Len(T)}
            /\ \A k \in 1..Len(T) :
                  BucketCount(sStats, T[k]) =
                      Cardinality({i \in 1..Len(scored) : scored[i].Score <= T[k]})
            /\ \A k \in 1..(Len(T) - 1) :
                  BucketCount(sStats, T[k]) <= BucketCount(sStats, T[k + 1])
            /\ (\A i \in 1..Len(scored) : scored[i].Score <= 200) =>
                  BucketCount(sStats, 200) = sStats.TotalDecisions
            /\ sStats.MinScore <= sStats.MedianScore
            /\ sStats.MedianScore <= sStats.MaxScore

\* A pass whose scores fall on both sides of several thresholds, one of them
\* above 200, and whose median lies strictly between the extremes.
C27_Witness ==
    /\ sPhase = "stats"
    /\ BucketCount(sStats, 50) < BucketCount(sStats, 150)
    /\ BucketCount(sStats, 150) < BucketCount(sStats, 200)
    /\ BucketCount(sStats, 200) < sStats.TotalDecisions
    /\ sStats.MinScore < sStats.MedianScore
    /\ sStats.MedianScore < sStats.MaxScore

\* The sum of the counts of a map over the keys in ks.
RECURSIVE SumOver(_, _)
SumOver(data, ks) ==
    IF ks = {} THEN 0
    ELSE LET k == CHOOSE x \in ks : TRUE
         IN  data[k] + SumOver(data, ks \ {k})

\* C28: for a per-scenario count map M and N = top_scenarios (20 when it is
\* zero or less), writeTopNMetric writes at most N series under a label of
\* their own, which are entries of M no smaller than any entry left out, and
\* one series scenario="other" with the sum of the entries left out, written
\* exactly when entries are left out; the values written sum to the sum of M
\* and there are at most N + 1 series.
C28_TopNPlusOther ==
    call.fn = "writeTopNMetric" =>
        LET M == call.data
            N == IF call.topScenarios <= 0 THEN 20 ELSE call.topScenarios
            out == call.out
            own == {i \in 1..Len(out) : out[i].scenario # "other"}
            other == {i \in 1..Len(out) : out[i].scenario = "other"}
            shown == {out[i].scenario : i \in own}
            rest == DOMAIN M \ shown
        IN  /\ Cardinality(own) <= N
            /\ Cardinality(own) = Min(N, Cardinality(DOMAIN M))
            /\ \A i \in own : /\ out[i].scenario \in DOMAIN M
                              /\ out[i].value = M[out[i].scenario]
            /\ \A i, j \in own : i # j => out[i].scenario # out[j].scenario
            /\ \A k \in rest : \A i \in own : M[k] <= out[i].value
            /\ Cardinality(other) <= 1
            /\ (other # {}) <=> (rest # {})
            /\ \A i \in other : out[i].value = SumOver(M, rest)
            /\ SumSeq([i \in 1..Len(out) |-> out[i].value]) = SumOver(M, DOMAIN M)
            /\ Len(out) <= N + 1

\* Four scenarios written under top_scenarios = 2: two series of their own
\* and "other" with the sum of two entries.
C28_Witness ==
    /\ call.fn = "writeTopNMetric"
    /\ call.topScenarios = 2
    /\ Cardinality(DOMAIN call.data) = 4
    /\ Len(call.out) = 3
    /\ call.out[3] = [scenario |-> "other", value |-> 3]
    /\ call.out[1].value > call.out[2].value

\* What the statement of C29 asks of a document: url and key given and not
\* empty, max_decisions positive or left at its default, cache_ttl not
\* negative or left at its default, every scenario key other than "default"
\* a regular expression.
MeetsStatedConditions(doc) ==
    /\ doc.upstream_lapi_url \notin {Absent, Given("")}
    /\ doc.upstream_lapi_key \notin {Absent, Given("")}
    /\ doc.max_decisions # Absent => doc.max_decisions[1] > 0
    /\ doc.cache_ttl \in {Absent, Given("0s"), Given("60s")}
    /\ \A k \in doc.scenarios \ {"default"} : k # "ssh-(bf"

\* C29: Load returns a configuration only if upstream_lapi_url and
\* upstream_lapi_key are not empty, max_decisions > 0, cache_ttl >= 0 and
\* every scenario key other than "default" compiles; in every other case it
\* returns an error and no configuration, so the configuration a handler
\* runs with has max_decisions >= 1 and cache_ttl >= 0.
C29_LoadReturnsOnlyValidConfig ==
    call.fn = "Load" =>
        LET doc == call.doc
            out == call.out
        IN  /\ (out.cfg # <<>>) => MeetsStatedConditions(doc)
            /\ ~MeetsStatedConditions(doc) => (out.err # "" /\ out.cfg = <<>>)
            /\ (out.cfg = <<>>) <=> (out.err # "")
            /\ (out.cfg # <<>>) =>
                  /\ out.cfg[1].UpstreamLAPIURL # ""
                  /\ out.cfg[1].UpstreamLAPIKey # ""
                  /\ out.cfg[1].MaxDecisions >= 1
                  /\ out.cfg[1].CacheTTL >= 0
                  /\ Len(out.cfg[1].compiledScenarios)
                        = Cardinality(doc.scenarios \ {"default"})

\* Load returned a configuration for a document at the edge of what is
\* valid: max_decisions 1, cache_ttl 0, and two patterns compiled.
C29_Witness ==
    /\ call.fn = "Load"
    /\ call.out.cfg # <<>>
    /\ call.doc.max_decisions = Given(1)
    /\ call.doc.cache_ttl = Given("0s")
    /\ Len(call.out.cfg[1].compiledScenarios) = 2

\* C30 as stated: shutdown stops accepting connections before it stops the
\* auditor, so no request is accepted once the auditor has been told to stop.
C30_AsStated ==
    [][aud.stop # "none" => totalRequests' = totalRequests]_vars

\* No request is between ServeHTTP and the end of its handler.
NoRequestInFlight == \A c \in Clients : req[c].pc \in {"idle", "done"}

\* C31 as stated: whenever the cache slot is populated and no request is in
\* flight, cache_stats is the Stats of the pass that produced the cached
\* decisions: its returned count is the number of cached decisions, its
\* cutoff the score of the last of them, and its dropped count what that
\* pass left out.
C31_AsStated ==
    (~cache.isNil /\ NoRequestInFlight) =>
        /\ cacheStats.ReturnedDecisions = Len(cache.elems)
        /\ cacheStats.DroppedDecisions
              = cacheStats.TotalDecisions - Len(cache.elems)
        /\ Len(cache.elems) > 0 =>
              cacheStats.ScoreCutoff = cache.elems[Len(cache.elems)].Score

\* The bonus of the first range of the list that contains the prefix length,
\* 0 when none does.
RECURSIVE FirstRangeBonus(_, _)
FirstRangeBonus(ranges, prefix) ==
    IF ranges = << >> THEN 0
    ELSE IF Head(ranges).MinPrefix <= prefix /\ prefix <= Head(ranges).MaxPrefix
    THEN Head(ranges).Bonus
    ELSE FirstRangeBonus(Tail(ranges), prefix)

\* The prefix length written after the "/" of a value, 32 for a value
\* without one and for one net.ParseCIDR rejects.
PrefixWritten(value) ==
    CASE value = "10.0.0.0/16" -> 16
      [] value = "10.9.0.0/24" -> 24
      [] OTHER -> 32

\* C32 as stated: a value with "/" gets the bonus of its prefix length, else
\* a scope of ip, Ip or empty gets the bonus of 32, and every other decision
\* (a range whose value has no "/" among them) gets 0.
C32_AsStated ==
    call.fn = "CIDRBonus" =>
        call.out =
            IF call.value \in {"10.0.0.0/16", "10.9.0.0/24", "10.1.0.0/33"}
            THEN FirstRangeBonus(call.ranges, PrefixWritten(call.value))
            ELSE IF call.scope \in {"ip", "Ip", ""}
            THEN FirstRangeBonus(call.ranges, 32)
            ELSE 0

\* C32: if the scope is range or the value contains "/", the bonus is that
\* of the first range containing the parsed prefix length, which is 32 for a
\* value without "/" or one that does not parse; else if the scope is ip, Ip
\* or empty, the bonus is that of the first range containing 32; in every
\* other case the CIDR factor is 0.
C32_RangeScopeCountsAsPrefix32 ==
    call.fn = "CIDRBonus" =>
        call.out =
            IF call.scope = "range"
               \/ call.value \in {"10.0.0.0/16", "10.9.0.0/24", "10.1.0.0/33"}
            THEN FirstRangeBonus(call.ranges, PrefixWritten(call.value))
            ELSE IF call.scope \in {"ip", "Ip", ""}
            THEN FirstRangeBonus(call.ranges, 32)
            ELSE 0

\* A range whose value has no "/" got the bonus the list gives to /32.
C32_Witness ==
    /\ call.fn = "CIDRBonus"
    /\ call.scope = "range"
    /\ call.value = "1.2.3.4"
    /\ call.out = 7

\* C33 as stated: a bouncer that applies the stream responses in order never
\* holds more than max_decisions decisions.
C33_AsStated ==
    downstream # NoRecord => Cardinality(downstream.held) <= maxDecisions

\* C34 as stated: after every scoring pass the dropped-IP set is disjoint from
\* the values of the returned decisions.
C34_AsStated ==
    sPhase = "stats" =>
        sStats.DroppedIPs \cap {sOut[i].Value : i \in 1..Len(sOut)} = {}

\* C36 as stated: whenever no request is in flight the handler's dropped-IP
\* set is the one of the stored Stats.
C36_AsStated ==
    NoRequestInFlight => droppedIPs = cacheStats.DroppedIPs

\* C39: once StopBackgroundChecks has returned, falseNegativesTotal and
\* falseNegativeLastCheck keep their values and no call of GetAlerts is
\* started, whatever request is served; and a check whose call of GetAlerts
\* is ended by the cancellation adds nothing to falseNegativesTotal and ends
\* as a failed check.
C39_NothingAfterStopReturned ==
    [][/\ aud.stop = "returned" =>
             /\ falseNegativesTotal' = falseNegativesTotal
             /\ falseNegativeLastCheck' = falseNegativeLastCheck
             /\ aud'.pc = aud.pc
             /\ aud'.pc \notin {"fetch", "count"}
       /\ (aud.pc = "fetch" /\ aud.cancelled /\ aud'.pc # "fetch") =>
             /\ falseNegativesTotal' = falseNegativesTotal
             /\ aud'.pc = "wait"
             /\ aud'.outcome = "failed"]_vars

\* StopBackgroundChecks has returned after a check that counted and a last
\* one that failed, and a request is being served since.
C39_Witness ==
    /\ aud.stop = "returned"
    /\ aud.pc = "stopped"
    /\ aud.ticks = 2
    /\ aud.outcome = "failed"
    /\ falseNegativesTotal > 0
    /\ \E c \in Clients : req[c].pc = "stream"

\* What the requests write and the auditor has no business with.
requestFields ==
    <<droppedIPs, cache, cacheTime, cacheStats, cacheHits, cacheMisses,
      totalRequests, failedRequests, lastUpstreamCall>>

\* C40: a check adds to falseNegativesTotal the count of its alerts against
\* the droppedIPs it read when it started, whatever droppedIPs has become
\* since; that snapshot stays as it was read for as long as the check runs;
\* and no step of the auditor changes droppedIPs, the cache slot or the
\* counters of the requests.
C40_CountsAgainstSnapshot ==
    [][/\ (aud.pc = "count" /\ aud'.pc # "count") =>
             falseNegativesTotal' =
                falseNegativesTotal + CountFalseNegatives(aud.alerts, aud.dropped)
       /\ (aud.pc \in {"fetch", "count"} /\ aud'.pc \in {"fetch", "count"}) =>
             aud'.dropped = aud.dropped
       /\ (aud.pc = "wait" /\ aud'.pc = "fetch") => aud'.dropped = droppedIPs
       /\ (aud' # aud \/ falseNegativesTotal' # falseNegativesTotal
           \/ falseNegativeLastCheck' # falseNegativeLastCheck) =>
             UNCHANGED requestFields]_vars

\* The alerts of a check have arrived, one of them from an IP of the
\* snapshot, and a request has emptied droppedIPs in between.
C40_Witness ==
    /\ aud.pc = "count"
    /\ aud.dropped # droppedIPs
    /\ CountFalseNegatives(aud.alerts, aud.dropped) > 0
    /\ CountFalseNegatives(aud.alerts, droppedIPs) = 0

\* C35 as stated: a request for /v1/decisions answered with 200 gets the
\* decisions upstream was asked for with the query of that request: on a miss
\* GetDecisions was sent that query, and on a hit the slot had been filled by
\* a request with that query.
C35_AsStated ==
    slotQuery # NoRecord =>
        \A c \in Clients :
           (req[c].pc = "done" /\ req[c].path = "/v1/decisions"
            /\ req[c].resp.status = 200) =>
               IF req[c].fromCache
               THEN slotQuery.got[c] = slotQuery.asked[c]
               ELSE slotQuery.sent[c] = slotQuery.asked[c]

\* C37 as stated: falseNegativesTotal is the number of distinct alerts that
\* hit a dropped IP, each alert having been counted once.
C37_AsStated ==
    countedAlerts # NoRecord =>
        falseNegativesTotal = Cardinality(countedAlerts.ids)

\* The goroutines of the checker that have not returned.
LiveTasks == {i \in 1..Len(bg.tasks) : bg.tasks[i].pc # "stopped"}

\* C38 as stated: at most one goroutine of the checker exists at any time,
\* whatever calls of StartBackgroundChecks and StopBackgroundChecks were
\* made, and none is left once StopBackgroundChecks has been called and the
\* goroutines it cancelled have returned.
C38_AsStated ==
    bg # NoRecord =>
        /\ Cardinality(LiveTasks) <= 1
        /\ (bg.stop = "called"
            /\ \A i \in LiveTasks : ~bg.tasks[i].cancelled) => LiveTasks = {}

====
